---- MODULE Spec2Model ----
(***************************************************************************)
(* A model of the serializable continuation engine and of the swap         *)
(* algorithm built on it.                                                   *)
(*                                                                          *)
(* Two engines live in the repository and both are modelled:                *)
(*   - git_quilt/continuations.py (class Continuation, used by git-swap),   *)
(*   - gitq/continuations.py      (class Main, used by git-edit).           *)
(* One tool invocation is a process: it starts idle, runs step by step      *)
(* (each step is one transfer of control between scopes) and exits.         *)
(*                                                                          *)
(* The VCS is modelled abstractly.  A commit is identified by its own       *)
(* history: the sequence of entries from the root to the commit, so that    *)
(* the parent of a commit is the sequence without its last entry.  A tree   *)
(* is a set of atoms (the changes it contains).                             *)
(*                                                                          *)
(* A behaviour follows one top-level operation, from an arbitrary initial   *)
(* repository through all its suspensions and resumes to its end; tool      *)
(* invocations that are refused may happen at any time.                     *)
(***************************************************************************)
EXTENDS Integers, Sequences, FiniteSets, TLC

VARIABLES
    git,        \* the repository: HEAD, branches, index, cherry-pick state
    file,       \* .git/continuation.json (NoFile when absent)
    proc,       \* the running tool process: pc, tool, stack, ctl, susp, code
    conflicts,  \* which pairs of atoms cannot be merged automatically
    ghost       \* history variables used only to state properties

vars == <<git, file, proc, conflicts, ghost>>

(***************************************************************************)
(* Bounds                                                                   *)
(***************************************************************************)
MaxCommits == 3      \* commits on the branch in the initial repository
MaxConflicts == 1    \* pairs of atoms that conflict
MaxSuspends == 2     \* suspensions of one operation that are counted

(***************************************************************************)
(* Data                                                                     *)
(***************************************************************************)
U == MaxCommits + 1          \* the atom a user's own edit adds to a tree
Atoms == 1..U                \* commit n of the initial branch adds atom n
NoCommit == <<>>
NoFile == [tool |-> "", status |-> "", continuations |-> <<>>, exists |-> FALSE]
NoStatus == ""

Entry(m, a, t, mg) == [m |-> m, a |-> a, t |-> t, mg |-> mg]

Parent(c) == IF c = NoCommit THEN NoCommit ELSE SubSeq(c, 1, Len(c) - 1)
Last(c) == c[Len(c)]
TreeOf(c) == IF c = NoCommit THEN {} ELSE Last(c).t
IsMerge(c) == c # NoCommit /\ Last(c).mg
IsRoot(c) == Len(c) = 1 /\ ~Last(c).mg
\* len(commit.parents): 0 for a root, 2 for a merge, 1 otherwise
NParents(c) == IF Last(c).mg THEN 2 ELSE IF Len(c) = 1 THEN 0 ELSE 1

Reverse(s) == [i \in 1..Len(s) |-> s[Len(s) + 1 - i]]
Front(s) == SubSeq(s, 1, Len(s) - 1)
Tail2(s) == IF s = <<>> THEN <<>> ELSE Tail(s)
Range(s) == {s[i] : i \in 1..Len(s)}
Msgs(c) == [i \in 1..Len(c) |-> c[i].m]

\* the symbolic names the model knows
Master == "refs/heads/master"
TempName(n) == IF n = 0 THEN "refs/heads/temp-0" ELSE
               IF n = 1 THEN "refs/heads/temp-1" ELSE "refs/heads/temp-2"
BranchNames == {Master, TempName(0), TempName(1), TempName(2)}

\* HEAD is either symbolic (ref # "") or detached at sha.
SymHead(r) == [ref |-> r, sha |-> NoCommit]
ShaHead(c) == [ref |-> "", sha |-> c]

(***************************************************************************)
(* The VCS adapter (class Git).  Each operator takes the repository g and   *)
(* returns the repository after the command.                                *)
(***************************************************************************)
\* git rev-parse HEAD
HeadCommit(g) == IF g.HEAD.ref # "" THEN g.branches[g.HEAD.ref] ELSE g.HEAD.sha

\* Git.head: the symbolic ref when HEAD is symbolic, else the sha
head(g) == g.HEAD

\* Git.on_orphan_branch: HEAD names a branch that does not exist yet
on_orphan_branch(g) == g.HEAD.ref # "" /\ g.branches[g.HEAD.ref] = NoCommit

\* Git.branch_exists
branch_exists(g, b) == g.branches[b] # NoCommit

\* Git.branches
branches(g) == {b \in BranchNames : g.branches[b] # NoCommit}

\* Git.cherry_pick_in_progress: the CHERRY_PICK_HEAD marker exists
cherry_pick_in_progress(g) == g.CHERRY_PICK_HEAD # NoCommit

\* Git.has_unmerged_files
has_unmerged_files(g) == g.unmerged

\* Git.is_clean
is_clean(g) ==
    IF g.unmerged THEN FALSE
    ELSE IF on_orphan_branch(g) THEN TRUE
    ELSE g.index = TreeOf(HeadCommit(g))

\* the commit a HEAD value (symbolic ref or sha) resolves to
Resolve(g, h) == IF h.ref # "" THEN g.branches[h.ref] ELSE h.sha

\* Git.force_checkout: git checkout -f <branch or sha>
force_checkout(g, h) ==
    [g EXCEPT !.HEAD = h,
              !.index = TreeOf(Resolve(g, h)),
              !.unmerged = FALSE,
              !.CHERRY_PICK_HEAD = NoCommit]

\* Git.checkout: git checkout <branch or sha>; refused on an unmerged index,
\* staged changes are carried over
checkout_ok(g) == ~g.unmerged
checkout(g, h) ==
    LET old == TreeOf(HeadCommit(g))
        new == TreeOf(Resolve(g, h))
    IN [g EXCEPT !.HEAD = h,
                 !.index = (new \cup (g.index \ old)) \ (old \ g.index),
                 !.CHERRY_PICK_HEAD = NoCommit]

\* Git.detach: git checkout <sha of HEAD>
detach(g) == [g EXCEPT !.HEAD = ShaHead(HeadCommit(g))]

\* git checkout --orphan <branch>, then Git.delete_index_and_files
checkout_orphan(g, b) == [g EXCEPT !.HEAD = SymHead(b), !.index = {}]

\* git branch -qD <branch>
branch_delete(g, b) == [g EXCEPT !.branches[b] = NoCommit]

\* git update-ref <ref> HEAD
update_ref(g, r) == [g EXCEPT !.branches[r] = HeadCommit(g)]

\* record a new commit on top of HEAD and move HEAD (or its branch) to it
Advance(g, e) ==
    LET c == Append(HeadCommit(g), e)
    IN IF g.HEAD.ref # "" THEN [g EXCEPT !.branches[g.HEAD.ref] = c]
       ELSE [g EXCEPT !.HEAD = ShaHead(c)]

\* git read-tree <sha>
read_tree(g, c) == [g EXCEPT !.index = TreeOf(c)]

\* a commit that reuses the message of sha but not its author
commit_reuse_message_only(g, c) ==
    [Advance(g, Entry(Last(c).m, 0, g.index, FALSE))
        EXCEPT !.CHERRY_PICK_HEAD = NoCommit]

\* git commit --allow-empty --reuse-message <sha>: message and author of sha
commit_reuse(g, c) ==
    [Advance(g, Entry(Last(c).m, Last(c).a, g.index, FALSE))
        EXCEPT !.CHERRY_PICK_HEAD = NoCommit]

\* git commit --allow-empty --edit -F <file> with GIT_AUTHOR_* set
commit_message(g, m, a) ==
    [Advance(g, Entry(m, a, g.index, FALSE)) EXCEPT !.CHERRY_PICK_HEAD = NoCommit]

\* git reset --hard HEAD
reset_hard(g) == [g EXCEPT !.index = TreeOf(HeadCommit(g)), !.unmerged = FALSE,
                           !.CHERRY_PICK_HEAD = NoCommit]

\* git cherry-pick --allow-empty <c>: a three-way merge of c's change into
\* the index.  base is the tree of c's parent, ours the index.
PickAdded(c) == TreeOf(c) \ TreeOf(Parent(c))
PickRemoved(c) == TreeOf(Parent(c)) \ TreeOf(c)
PickDelta(g, c) == (g.index \ TreeOf(Parent(c))) \cup (TreeOf(Parent(c)) \ g.index)
PickTree(g, c) == (g.index \ PickRemoved(c)) \cup PickAdded(c)
PickConflicts(g, c) ==
    \E a \in PickAdded(c) \cup PickRemoved(c), b \in PickDelta(g, c) :
        {a, b} \in conflicts
\* the command starts at all: no merge commit, no pick under way, clean index
PickStarts(g, c) == ~IsMerge(c) /\ ~cherry_pick_in_progress(g) /\ is_clean(g)
cherry_pick_succeeds(g, c) == PickStarts(g, c) /\ ~PickConflicts(g, c)
git_cherry_pick(g, c) ==
    IF ~PickStarts(g, c) THEN g
    ELSE IF PickConflicts(g, c)
         THEN [g EXCEPT !.unmerged = TRUE, !.CHERRY_PICK_HEAD = c]
         ELSE LET g1 == [g EXCEPT !.index = PickTree(g, c)]
              IN Advance(g1, Entry(Last(c).m, Last(c).a, g1.index, FALSE))

\* git cherry-pick --continue refuses to record a commit that changes
\* nothing ("The previous cherry-pick is now empty")
cherry_pick_continue_ok(g) == g.index # TreeOf(HeadCommit(g))

\* git cherry-pick --continue: commit the resolved index
cherry_pick_continue(g) ==
    LET c == g.CHERRY_PICK_HEAD
    IN [Advance(g, Entry(Last(c).m, Last(c).a, g.index, FALSE))
           EXCEPT !.CHERRY_PICK_HEAD = NoCommit]

\* Git.cherry_pick_abort
cherry_pick_abort(g) ==
    IF cherry_pick_in_progress(g)
    THEN IF on_orphan_branch(g)
         THEN [g EXCEPT !.CHERRY_PICK_HEAD = NoCommit, !.index = {}, !.unmerged = FALSE]
         ELSE reset_hard(g)
    ELSE g

\* Git.baselines
baselines(g, h) ==
    IF h.ref = "" THEN <<>>
    ELSE IF g.baseline = NoCommit THEN <<>> ELSE <<g.baseline>>

(***************************************************************************)
(* Continuations.  A frame is one entered scope; ph is "body" while the     *)
(* scope waits at its yield and "tail" once its tail has started running.   *)
(* The attributes are h, x, y, cs, edit, br; i is the position of the       *)
(* for-loop of git_quilt's PickCherries.                                    *)
(***************************************************************************)
NoHead == [ref |-> "", sha |-> NoCommit]
Frame(kind) == [kind |-> kind, ph |-> "body", h |-> NoHead, x |-> NoCommit,
                y |-> NoCommit, cs |-> <<>>, edit |-> FALSE, br |-> "", i |-> 0]

\* ContinuationClass.types: the registry of kinds
ContinuationKinds ==
    {"EditBranch", "PickCherries", "CherryPickContinue", "DeleteTempBranch",
     "PickCherryWithReference", "OrSquash", "SwapCheckpoint", "KeepGoing",
     "KeepGoingUp", "CatchStop"}

\* scopes that are not continuations: the driver, and the try blocks of
\* swap() and of KeepGoingUp.impl
PlainKinds == {"Main", "SwapTry", "KGUTry"}

EditBranch(h) == [Frame("EditBranch") EXCEPT !.h = h]
PickCherries(cs, edit) == [Frame("PickCherries") EXCEPT !.cs = cs, !.edit = edit]
CherryPickContinue(ref) == [Frame("CherryPickContinue") EXCEPT !.x = ref]
DeleteTempBranch(br, prev) == [Frame("DeleteTempBranch") EXCEPT !.br = br, !.h = prev]
PickCherryWithReference(cherry, reference) ==
    [Frame("PickCherryWithReference") EXCEPT !.x = cherry, !.y = reference]
OrSquash(c) == [Frame("OrSquash") EXCEPT !.x = c]
SwapCheckpoint(c) == [Frame("SwapCheckpoint") EXCEPT !.x = c]
KeepGoing(edit, bl) == [Frame("KeepGoing") EXCEPT !.edit = edit, !.cs = bl]
KeepGoingUp(edit, cs) == [Frame("KeepGoingUp") EXCEPT !.edit = edit, !.cs = cs]
CatchStop == Frame("CatchStop")

\* EditBranch.branch: the branch name when head is a branch, else none
branch(f) == f.h.ref

\* a to_json_dict that drops `head` together with the git handle
to_json_dict_without_head(f) == [f EXCEPT !.ph = "body", !.i = 0, !.h = NoHead]

\* Continuation.to_json_dict: the attributes and the kind, without the
\* manager (the running generator: ph and i) and without the git handle
to_json_dict(f) == [f EXCEPT !.ph = "body", !.i = 0]

\* T(git, **k): the constructor registered for the record's kind, called
\* with the record's other keys as keyword arguments; the continuation
\* built waits at its yield
FromJson(k) ==
    CASE k.kind = "EditBranch" -> EditBranch(k.h)
      [] k.kind = "PickCherries" -> PickCherries(k.cs, k.edit)
      [] k.kind = "CherryPickContinue" -> CherryPickContinue(k.x)
      [] k.kind = "DeleteTempBranch" -> DeleteTempBranch(k.br, k.h)
      [] k.kind = "PickCherryWithReference" -> PickCherryWithReference(k.x, k.y)
      [] k.kind = "OrSquash" -> OrSquash(k.x)
      [] k.kind = "SwapCheckpoint" -> SwapCheckpoint(k.x)
      [] k.kind = "KeepGoing" -> KeepGoing(k.edit, k.cs)
      [] k.kind = "KeepGoingUp" -> KeepGoingUp(k.edit, k.cs)
      [] k.kind = "CatchStop" -> CatchStop

(***************************************************************************)
(* Signals and errors                                                       *)
(***************************************************************************)
ResumeKinds == {"Stop", "Squash", "Fixup"}            \* subclasses of Resume
ErrorKinds == {"Abort", "SwapFailed", "GitFailed", "UserError", "MergeFound",
               "InternalError", "NotImplementedError"} \* subclasses of Exception
Throws == {"", "Abort", "Stop", "Squash", "Fixup"}     \* what a resume may inject

Tools == {"git-swap", "git-edit"}
\* git-swap runs on git_quilt/continuations.py, git-edit on gitq/continuations.py
Engine(tool) == IF tool = "git-swap" THEN "git_quilt" ELSE "gitq"

\* the control of the running process
Ctl(op, arg) == [op |-> op, arg |-> arg, edit |-> FALSE, cs |-> <<>>, x |-> NoCommit]
Ret == Ctl("ret", "")
Exc(e) == Ctl("exc", e)
NoSuspend == [status |-> NoStatus, ks |-> <<>>]
SwapArgs(commit, edit, keep_going, up) ==
    [commit |-> commit, edit |-> edit, keep_going |-> keep_going, up |-> up]
NoArgs == SwapArgs(NoCommit, FALSE, FALSE, FALSE)
\* passed: the invocation got past its precondition checks
\* throw: the instruction a resume injects ("" for --continue)
\* out: what an invocation that only reports has printed (a status query,
\* a usage message); empty for invocations that start or resume
Idle == [pc |-> "idle", tool |-> "", resumed |-> FALSE, passed |-> FALSE, args |-> NoArgs,
         throw |-> "", stack |-> <<>>, ctl |-> Ctl("none", ""), susp |-> NoSuspend, code |-> -1,
         out |-> ""]

(***************************************************************************)
(* Process helpers                                                          *)
(***************************************************************************)
Running == proc.pc = "run"
Top == proc.stack[Len(proc.stack)]
Below == Front(proc.stack)
Push(st, f) == Append(st, f)

Event(what, c) == [what |-> what, c |-> c]

\* one step of the process: new repository, new process, nothing logged
Go(g, p) ==
    /\ git' = g
    /\ proc' = p
    /\ UNCHANGED <<file, conflicts, ghost>>

\* the same, with an event appended to the history of the operation
GoLog(g, p, ev) ==
    /\ git' = g
    /\ proc' = p
    /\ ghost' = [ghost EXCEPT !.log = Append(@, ev)]
    /\ UNCHANGED <<file, conflicts>>

\* sys.exit(code): the process ends, the stack is gone
Exit(code) == [Idle EXCEPT !.code = code, !.tool = proc.tool, !.resumed = proc.resumed,
                           !.throw = proc.throw, !.passed = TRUE]

\* the continuation of the process with another stack and control
With(st, ctl) == [proc EXCEPT !.stack = st, !.ctl = ctl]

\* Git.unique_parent raises MergeFound unless the commit has one parent
unique_parent_ok(c) == NParents(c) = 1
\* a unique_parent_or_root that takes a root for a merge
unique_parent_or_root_refuses_root(c) == NParents(c) = 1

\* Git.unique_parent_or_root: None for a root
unique_parent_or_root_ok(c) == NParents(c) \in {0, 1}

\* collect_cherries: walk from head down to commit, collecting the shas
\* passed; ok is FALSE when the walk meets a commit without a unique parent
RECURSIVE Walk(_, _, _)
Walk(hd, commit, acc) ==
    IF hd = commit THEN [ok |-> TRUE, cs |-> Reverse(acc)]
    ELSE IF ~unique_parent_ok(hd) THEN [ok |-> FALSE, cs |-> <<>>]
    ELSE Walk(Parent(hd), commit, Append(acc, hd))

\* a collect_cherries that returns the commits in the order of the walk
collect_cherries_newest_first(commit, g) ==
    IF commit = NoCommit THEN [ok |-> TRUE, cs |-> <<>>]
    ELSE LET w == Walk(HeadCommit(g), commit, <<>>)
         IN [w EXCEPT !.cs = Reverse(@)]

collect_cherries(commit, g) ==
    IF commit = NoCommit THEN [ok |-> TRUE, cs |-> <<>>]
    ELSE Walk(HeadCommit(g), commit, <<>>)

(***************************************************************************)
(* git-swap: main (git_quilt/git_swap.py)                                   *)
(***************************************************************************)
\* the commits a user can name: HEAD and its ancestors
Ancestors(c) == {SubSeq(c, 1, n) : n \in 1..Len(c)}

\* a new operation begins: remember the repository it started from
Begin(tool, args) ==
    [ghost EXCEPT !.pre = git, !.args = args, !.tool = tool, !.nops = @ + 1,
                  !.log = <<>>, !.suspends = 0, !.active = TRUE,
                  !.mark = 0, !.file = NoFile, !.at = git]

\* a git-swap that looks only for the file
SwapRefusedIfFile == file.exists

\* main refuses to start: the file exists or the repository is not clean
SwapRefused == file.exists \/ ~is_clean(git)

\* an invocation that ends with UserError before it does anything
Refuse(tool, resumed) ==
    /\ proc' = [Idle EXCEPT !.code = 1, !.tool = tool, !.resumed = resumed]
    /\ UNCHANGED <<git, file, conflicts, ghost>>

SwapStartRefused ==
    /\ proc.pc = "idle"
    /\ SwapRefused
    /\ Refuse("git-swap", FALSE)

\* git swap [COMMIT] [--edit] [--keep-going] [--up], up to the construction
\* of EditBranch: the two checks of main, the check of Continuation.main,
\* then EditBranch.__init__ records HEAD and detaches.
SwapStart(commit, edit, keep_going, up) ==
    /\ proc.pc = "idle"
    /\ ~SwapRefused
    /\ ghost.nops = 0
    /\ git' = detach(git)
    /\ proc' = [Idle EXCEPT !.pc = "run", !.tool = "git-swap", !.passed = TRUE,
                            !.args = SwapArgs(commit, edit, keep_going, up),
                            !.stack = <<Frame("Main"), EditBranch(head(git))>>,
                            !.ctl = Ctl("body", "main")]
    /\ ghost' = Begin("git-swap", SwapArgs(commit, edit, keep_going, up))
    /\ UNCHANGED <<file, conflicts>>

\* edit_commit(commit): check out commit and set the commits above it aside
\* in a PickCherries scope; a no-op for None
edit_commit_stack(st, cs, edit) == Push(st, PickCherries(cs, edit))

\* a maybe_keep_going that wraps nothing around a swap without --keep-going
maybe_keep_going_or_nothing(st, keep_going, edit, bl) ==
    IF keep_going THEN Push(st, KeepGoing(edit, bl)) ELSE st

\* maybe_keep_going
maybe_keep_going(st, keep_going, edit, bl) ==
    IF keep_going THEN Push(st, KeepGoing(edit, bl)) ELSE Push(st, CatchStop)

SwapOrSquashCtl(edit, bl) == [Ctl("body", "swap_or_squash") EXCEPT !.edit = edit, !.cs = bl]

\* the body of `with EditBranch(...) as branch` in main, without --up
SwapMainDown ==
    LET a == proc.args
        bl == baselines(git, Top.h)
        w == collect_cherries(a.commit, git)
    IN /\ Running /\ proc.tool = "git-swap"
       /\ proc.ctl.op = "body" /\ proc.ctl.arg = "main" /\ ~a.up
       /\ IF a.commit = NoCommit
          THEN Go(git, With(maybe_keep_going(proc.stack, a.keep_going, a.edit, bl),
                            SwapOrSquashCtl(a.edit, bl)))
          ELSE IF ~w.ok
          THEN Go(git, With(proc.stack, Exc("UserError")))
          ELSE Go(checkout(git, ShaHead(a.commit)),
                  With(maybe_keep_going(edit_commit_stack(proc.stack, w.cs, FALSE),
                                        a.keep_going, a.edit, bl),
                       SwapOrSquashCtl(a.edit, bl)))

\* the body of `with EditBranch(...)` in main with --up
SwapMainUp ==
    LET a == proc.args
        w == collect_cherries(a.commit, git)
        w2 == collect_cherries(w.cs[1], git)
    IN /\ Running /\ proc.tool = "git-swap"
       /\ proc.ctl.op = "body" /\ proc.ctl.arg = "main" /\ a.up
       /\ IF a.commit = NoCommit \/ ~w.ok \/ w.cs = <<>>
          THEN Go(git, With(proc.stack, Exc("UserError")))
          ELSE IF a.keep_going
          THEN Go(checkout(git, ShaHead(a.commit)),
                  With(Push(Push(proc.stack, CatchStop), KeepGoingUp(a.edit, w.cs)), Ret))
          ELSE Go(checkout(git, ShaHead(w.cs[1])),
                  With(edit_commit_stack(Push(proc.stack, CatchStop), w2.cs, FALSE),
                       SwapOrSquashCtl(a.edit, <<>>)))

(***************************************************************************)
(* swap_or_squash, swap and cherry_pick                                     *)
(***************************************************************************)
\* a TempBranch that always takes temp-0
FirstTemp(g) == TempName(0)

\* TempBranch: the first temp-N that is not a branch
LowestTemp(g) ==
    IF ~branch_exists(g, TempName(0)) THEN TempName(0)
    ELSE IF ~branch_exists(g, TempName(1)) THEN TempName(1) ELSE TempName(2)

\* swap_or_squash: enter OrSquash(head) and call swap
SwapOrSquash ==
    /\ Running /\ proc.ctl.op = "body" /\ proc.ctl.arg = "swap_or_squash"
    /\ Go(git, With(Push(proc.stack, OrSquash(HeadCommit(git))),
                    [proc.ctl EXCEPT !.arg = "swap"]))

\* swap fails before it enters a scope: HEAD or its parent has no unique
\* parent chain, or the parent is a baseline
SwapFails(g, bl) ==
    LET one == HeadCommit(g)
        two == Parent(one)
    IN \/ ~unique_parent_ok(one)
       \/ ~unique_parent_or_root_ok(two)
       \/ two \in Range(bl)

\* swap: the checks, then SwapCheckpoint, CheckoutBaseline and
\* PickCherryWithReference are entered and cherry_pick(one) is next
Swap ==
    LET one == HeadCommit(git)
        two == Parent(one)
        three == Parent(two)
        st1 == Push(proc.stack, SwapCheckpoint(one))
        tmp == LowestTemp(git)
        st2 == IF three = NoCommit THEN Push(st1, DeleteTempBranch(tmp, head(git))) ELSE st1
        g2 == IF three = NoCommit THEN checkout_orphan(git, tmp)
              ELSE checkout(git, ShaHead(three))
        st3 == Push(Push(st2, PickCherryWithReference(two, one)), Frame("SwapTry"))
    IN /\ Running /\ proc.ctl.op = "body" /\ proc.ctl.arg = "swap"
       /\ IF SwapFails(git, proc.ctl.cs)
          THEN Go(git, With(proc.stack, Exc("SwapFailed")))
          ELSE Go(g2, With(st3, [proc.ctl EXCEPT !.arg = "cherry_pick", !.x = one]))

\* the status a Suspend raised by cherry_pick carries
PickStatus(tool) == IF Engine(tool) = "gitq" THEN "cherry-picking" ELSE NoStatus
\* the CherryPickContinue cherry_pick installs (gitq records the ref)
PickContinue(tool, c) ==
    IF Engine(tool) = "gitq" THEN CherryPickContinue(c) ELSE CherryPickContinue(NoCommit)

\* a cherry_pick that re-raises the failure without aborting the cherry-pick
cherry_pick_without_abort(c, edit, st) ==
    LET g1 == git_cherry_pick(git, c)
    IN IF cherry_pick_succeeds(git, c)
       THEN GoLog(g1, With(st, Ret), Event("pick", c))
       ELSE IF edit /\ cherry_pick_in_progress(g1)
       THEN GoLog(g1, [proc EXCEPT !.stack = Push(st, PickContinue(proc.tool, c)),
                                   !.ctl = Exc("Suspend"),
                                   !.susp = [status |-> PickStatus(proc.tool), ks |-> <<>>]],
                  Event("conflict", c))
       ELSE GoLog(g1, With(st, Exc("GitFailed")), Event("failed", c))

\* cherry_pick(ref, edit) called with the stack st
cherry_pick(c, edit, st) ==
    LET g1 == git_cherry_pick(git, c)
    IN IF cherry_pick_succeeds(git, c)
       THEN GoLog(g1, With(st, Ret), Event("pick", c))
       ELSE IF edit /\ cherry_pick_in_progress(g1)
       THEN GoLog(g1, [proc EXCEPT !.stack = Push(st, PickContinue(proc.tool, c)),
                                   !.ctl = Exc("Suspend"),
                                   !.susp = [status |-> PickStatus(proc.tool), ks |-> <<>>]],
                  Event("conflict", c))
       ELSE GoLog(cherry_pick_abort(g1), With(st, Exc("GitFailed")), Event("failed", c))

\* the cherry_pick(one.sha) of swap
SwapCherryPick ==
    /\ Running /\ proc.ctl.op = "body" /\ proc.ctl.arg = "cherry_pick"
    /\ cherry_pick(proc.ctl.x, proc.ctl.edit, proc.stack)

(***************************************************************************)
(* Normal exit of a scope: the release-on-success tails                     *)
(***************************************************************************)
AtRet(kind) == Running /\ proc.ctl.op = "ret" /\ Top.kind = kind /\ Top.ph = "body"

\* an EditBranch whose success tail moves the branch and leaves HEAD detached
EditBranchSuccessNoCheckout(g, f) ==
    IF branch(f) # "" THEN update_ref(g, f.h.ref) ELSE g

\* EditBranch.impl, else branch: move the branch to HEAD and check it out
EditBranchSuccess(g, f) ==
    IF branch(f) # "" THEN checkout(update_ref(g, f.h.ref), f.h) ELSE g

RetEditBranch ==
    /\ AtRet("EditBranch")
    /\ Go(EditBranchSuccess(git, Top), With(Below, Ret))

\* the cherries PickCherries has still to pick
Remaining(f, tool) ==
    IF Engine(tool) = "gitq" THEN f.cs ELSE SubSeq(f.cs, f.i + 1, Len(f.cs))
\* the frame while the next cherry is picked: gitq takes the cherry off the
\* list before the pick, git_quilt iterates over the list
Consumed(f, tool) ==
    IF Engine(tool) = "gitq" THEN [f EXCEPT !.cs = Tail(f.cs), !.ph = "tail"]
    ELSE [f EXCEPT !.i = f.i + 1, !.ph = "tail"]

\* PickCherries.impl after the yield: one turn of the loop
RetPickCherries ==
    /\ Running /\ proc.ctl.op = "ret" /\ Top.kind = "PickCherries"
    /\ IF Remaining(Top, proc.tool) = <<>>
       THEN Go(git, With(Below, Ret))
       ELSE cherry_pick(Remaining(Top, proc.tool)[1], Top.edit,
                        Push(Below, Consumed(Top, proc.tool)))

\* a CherryPickContinue whose tail raises Suspend itself, without a new
\* CherryPickContinue around it
RetCherryPickContinueBare ==
    /\ AtRet("CherryPickContinue")
    /\ IF cherry_pick_in_progress(git)
       THEN IF has_unmerged_files(git)
            THEN Go(git, [proc EXCEPT !.stack = Push(Below, [Top EXCEPT !.ph = "tail"]),
                                      !.ctl = Exc("Suspend"),
                                      !.susp = NoSuspend])
            ELSE IF cherry_pick_continue_ok(git)
            THEN GoLog(cherry_pick_continue(git), With(Below, Ret),
                       Event("continue", git.CHERRY_PICK_HEAD))
            ELSE GoLog(git, With(Below, Exc("GitFailed")),
                       Event("failed", git.CHERRY_PICK_HEAD))
       ELSE Go(git, With(Below, Ret))

\* CherryPickContinue.impl after the yield
RetCherryPickContinue ==
    /\ AtRet("CherryPickContinue")
    /\ IF cherry_pick_in_progress(git)
       THEN IF has_unmerged_files(git)
            THEN IF Engine(proc.tool) = "gitq"
                 THEN Go(git, [proc EXCEPT !.stack = Push(Below, [Top EXCEPT !.ph = "tail"]),
                                           !.ctl = Exc("Suspend"),
                                           !.susp = [status |-> "cherry-picking", ks |-> <<>>]])
                 ELSE Go(git, [proc EXCEPT !.stack = Push(Push(Below, [Top EXCEPT !.ph = "tail"]),
                                                          CherryPickContinue(NoCommit)),
                                           !.ctl = Exc("Suspend"),
                                           !.susp = NoSuspend])
            ELSE IF cherry_pick_continue_ok(git)
            THEN GoLog(cherry_pick_continue(git), With(Below, Ret),
                       Event("continue", git.CHERRY_PICK_HEAD))
            ELSE GoLog(git, With(Below, Exc("GitFailed")),
                       Event("failed", git.CHERRY_PICK_HEAD))
       ELSE Go(git, With(Below, Ret))

\* DeleteTempBranch.impl, finally
DeleteTempBranchFinally(g, f) ==
    LET g1 == IF on_orphan_branch(g) THEN force_checkout(g, f.h) ELSE detach(g)
    IN IF branch_exists(g1, f.br) THEN branch_delete(g1, f.br) ELSE g1

RetDeleteTempBranch ==
    /\ AtRet("DeleteTempBranch")
    /\ Go(DeleteTempBranchFinally(git, Top), With(Below, Ret))

\* a PickCherryWithReference that commits the index the cherry-pick left
PickCherryWithoutReference(g, f) == reset_hard(commit_reuse(g, f.x))

\* PickCherryWithReference.impl after the yield: take the tree of the
\* reference, commit it with the message of the cherry
PickCherryWithReferenceTail(g, f) == reset_hard(commit_reuse(read_tree(g, f.y), f.x))

RetPickCherryWithReference ==
    /\ AtRet("PickCherryWithReference")
    /\ GoLog(PickCherryWithReferenceTail(git, Top), With(Below, Ret), Event("reference", Top.x))

\* scopes whose success tail does nothing: OrSquash, SwapCheckpoint,
\* CatchStop, the try blocks, KeepGoingUp with no cherries, and a scope
\* whose tail has finished
RetPop ==
    /\ Running /\ proc.ctl.op = "ret"
    /\ \/ Top.kind \in {"OrSquash", "SwapCheckpoint", "CatchStop", "SwapTry", "KGUTry"}
       \/ Top.kind = "KeepGoingUp" /\ Top.cs = <<>>
       \/ Top.kind \in {"KeepGoing", "KeepGoingUp"} /\ Top.ph = "tail"
    /\ Go(git, With(Below, Ret))

\* a KeepGoing that is content with one swap
KeepGoingOnce == AtRet("KeepGoing") /\ Go(git, With(Below, Ret))

\* KeepGoing.impl after the yield: step down to the parent and swap again,
\* with the commit just passed set aside
RetKeepGoing ==
    LET A == HeadCommit(git)
        B == Parent(A)
    IN /\ AtRet("KeepGoing")
       /\ IF ~unique_parent_ok(A)
          THEN Go(git, With(Below, Ret))
          ELSE Go(checkout(git, ShaHead(B)),
                  With(Push(Push(Push(Below, [Top EXCEPT !.ph = "tail"]),
                                 PickCherries(<<A>>, FALSE)),
                            KeepGoing(Top.edit, Top.cs)),
                       SwapOrSquashCtl(Top.edit, Top.cs)))

\* KeepGoingUp.impl after the yield: pick the next cherry, then swap the
\* target on top of it, inside KeepGoingUp(rest)
RetKeepGoingUp ==
    LET cherry == Top.cs[1]
        st == Push(Push(Below, [Top EXCEPT !.ph = "tail"]), KeepGoingUp(Top.edit, Tail(Top.cs)))
    IN /\ AtRet("KeepGoingUp") /\ Top.cs # <<>>
       /\ IF cherry_pick_succeeds(git, cherry)
          THEN GoLog(git_cherry_pick(git, cherry),
                     With(Push(st, Frame("KGUTry")), SwapOrSquashCtl(Top.edit, <<>>)),
                     Event("pick", cherry))
          ELSE GoLog(git_cherry_pick(git, cherry), With(st, Exc("GitFailed")),
                     Event("failed", cherry))

(***************************************************************************)
(* Exceptional exit of a scope: the release-on-failure tails                *)
(***************************************************************************)
Raised == IF Running /\ proc.ctl.op = "exc" THEN proc.ctl.arg ELSE ""
AtExc(kind) == Running /\ proc.ctl.op = "exc" /\ Top.kind = kind /\ Top.ph = "body"
               /\ proc.ctl.arg # "Suspend"

\* an EditBranch whose failure tail moves the branch to HEAD before it
\* checks the branch out
EditBranchFailureMovesBranch(g, f) ==
    IF branch(f) # "" THEN force_checkout(update_ref(g, f.h.ref), f.h)
    ELSE force_checkout(g, f.h)

\* an EditBranch that re-raises without restoring the original HEAD
EditBranchKeepsHead(g, f) == g

\* EditBranch.impl, except (Exception, Resume)
EditBranchFailure(g, f) == force_checkout(g, f.h)

ExcEditBranch ==
    /\ AtExc("EditBranch")
    /\ Go(EditBranchFailure(git, Top), With(Below, proc.ctl))

\* CherryPickContinue.impl, except (Exception, Resume)
ExcCherryPickContinue ==
    /\ AtExc("CherryPickContinue")
    /\ Go(cherry_pick_abort(git), With(Below, proc.ctl))

ExcDeleteTempBranch ==
    /\ AtExc("DeleteTempBranch")
    /\ Go(DeleteTempBranchFinally(git, Top), With(Below, proc.ctl))

\* a SwapCheckpoint that re-raises without going back to the commit it recorded
SwapCheckpointKeepsHead(g, f) == g

\* SwapCheckpoint.impl, except (Exception, Resume)
SwapCheckpointFailure(g, f) == force_checkout(g, ShaHead(f.x))

ExcSwapCheckpoint ==
    /\ AtExc("SwapCheckpoint")
    /\ Go(SwapCheckpointFailure(git, Top), With(Below, proc.ctl))

\* OrSquash.impl, except Fixup / except Squash: in CheckoutBaseline(C) take
\* A's tree and commit it with B's author and message (Fixup) or with B's
\* author and both messages (Squash)
SquashCommit(g, A, fixup) ==
    LET B == Parent(A)
    IN IF fixup THEN commit_reuse(g, B)
       ELSE commit_message(g, Last(B).m \o Last(A).m, Last(B).a)

DoSquash(g, A, fixup) ==
    LET B == Parent(A)
        C == Parent(B)
        tmp == LowestTemp(g)
        g1 == IF C = NoCommit THEN checkout_orphan(g, tmp) ELSE checkout(g, ShaHead(C))
        g2 == reset_hard(SquashCommit(read_tree(g1, A), A, fixup))
    IN IF C = NoCommit THEN DeleteTempBranchFinally(g2, DeleteTempBranch(tmp, head(g)))
       ELSE g2

SquashOk(A) == unique_parent_ok(A) /\ unique_parent_or_root_ok(Parent(A))

\* an OrSquash for which Abort is one of the Resume signals: its last
\* clause, except Resume, turns the Abort into NotImplementedError
ExcOrSquashAbortIsResume ==
    /\ AtExc("OrSquash") /\ proc.ctl.arg \in {"Fixup", "Squash", "Abort"}
    /\ IF proc.ctl.arg = "Abort"
       THEN Go(git, With(Below, Exc("NotImplementedError")))
       ELSE IF SquashOk(Top.x)
       THEN GoLog(DoSquash(git, Top.x, proc.ctl.arg = "Fixup"),
                  With(Below, Exc("Stop")), Event("squash", Top.x))
       ELSE Go(git, With(Below, Exc("MergeFound")))

ExcOrSquash ==
    /\ AtExc("OrSquash") /\ proc.ctl.arg \in {"Fixup", "Squash"}
    /\ IF SquashOk(Top.x)
       THEN GoLog(DoSquash(git, Top.x, proc.ctl.arg = "Fixup"),
                  With(Below, Exc("Stop")), Event("squash", Top.x))
       ELSE Go(git, With(Below, Exc("MergeFound")))

\* a KeepGoing that restores nothing and lets SwapFailed and Stop through
ExcKeepGoingReraises ==
    /\ AtExc("KeepGoing") /\ proc.ctl.arg \in {"SwapFailed", "Stop"}
    /\ Go(git, With(Below, proc.ctl))

\* KeepGoing.impl, except (SwapFailed, Stop): return
ExcKeepGoing ==
    /\ AtExc("KeepGoing") /\ proc.ctl.arg \in {"SwapFailed", "Stop"}
    /\ Go(git, With(Below, Ret))

\* CatchStop.impl, except Stop: pass
ExcCatchStop ==
    /\ AtExc("CatchStop") /\ proc.ctl.arg = "Stop"
    /\ Go(git, With(Below, Ret))

\* a KeepGoingUp that lets Stop pass without picking its cherry
ExcKeepGoingUpSkips ==
    /\ AtExc("KeepGoingUp") /\ proc.ctl.arg = "Stop" /\ Top.cs # <<>>
    /\ Go(git, With(Below, Exc("Stop")))

\* KeepGoingUp.impl, except Stop: pick the cherry and raise again, into
\* KeepGoingUp(rest)
ExcKeepGoingUp ==
    LET cherry == Top.cs[1]
        st == Push(Below, KeepGoingUp(Top.edit, Tail(Top.cs)))
    IN /\ AtExc("KeepGoingUp") /\ proc.ctl.arg = "Stop" /\ Top.cs # <<>>
       /\ IF cherry_pick_succeeds(git, cherry)
          THEN GoLog(git_cherry_pick(git, cherry), With(st, Exc("Stop")), Event("pick", cherry))
          ELSE GoLog(git_cherry_pick(git, cherry), With(st, Exc("GitFailed")),
                     Event("failed", cherry))

\* swap, except GitFailed: raise SwapFailed
ExcSwapTry ==
    /\ AtExc("SwapTry") /\ proc.ctl.arg = "GitFailed"
    /\ Go(git, With(Below, Exc("SwapFailed")))

\* KeepGoingUp.impl, except SwapFailed: raise Stop
ExcKGUTry ==
    /\ AtExc("KGUTry") /\ proc.ctl.arg = "SwapFailed"
    /\ Go(git, With(Below, Exc("Stop")))

\* a KeepGoing that handles SwapFailed only and lets Stop pass
HandlesButKeepGoingStop(f, e) ==
    /\ f.ph = "body"
    /\ \/ f.kind \in {"EditBranch", "CherryPickContinue", "DeleteTempBranch",
                      "SwapCheckpoint", "Main"}
       \/ f.kind = "OrSquash" /\ e \in {"Fixup", "Squash"}
       \/ f.kind = "KeepGoing" /\ e = "SwapFailed"
       \/ f.kind = "CatchStop" /\ e = "Stop"
       \/ f.kind = "KeepGoingUp" /\ e = "Stop" /\ f.cs # <<>>
       \/ f.kind = "SwapTry" /\ e = "GitFailed"
       \/ f.kind = "KGUTry" /\ e = "SwapFailed"

\* the exception is not handled by the scope on top: it propagates
Handles(f, e) ==
    /\ f.ph = "body"
    /\ \/ f.kind \in {"EditBranch", "CherryPickContinue", "DeleteTempBranch",
                      "SwapCheckpoint", "Main"}
       \/ f.kind = "OrSquash" /\ e \in {"Fixup", "Squash"}
       \/ f.kind = "KeepGoing" /\ e \in {"SwapFailed", "Stop"}
       \/ f.kind = "CatchStop" /\ e = "Stop"
       \/ f.kind = "KeepGoingUp" /\ e = "Stop" /\ f.cs # <<>>
       \/ f.kind = "SwapTry" /\ e = "GitFailed"
       \/ f.kind = "KGUTry" /\ e = "SwapFailed"

\* an exception that leaves the scope on top and the scope around it at once
ExcPassSkips ==
    /\ Running /\ proc.ctl.op = "exc" /\ proc.ctl.arg # "Suspend"
    /\ ~Handles(Top, proc.ctl.arg)
    /\ Go(git, With(IF Len(Below) > 1 THEN Front(Below) ELSE Below, proc.ctl))

ExcPass ==
    /\ Running /\ proc.ctl.op = "exc" /\ proc.ctl.arg # "Suspend"
    /\ ~Handles(Top, proc.ctl.arg)
    /\ Go(git, With(Below, proc.ctl))

(***************************************************************************)
(* Suspend                                                                  *)
(***************************************************************************)
\* an __exit__ that appends every scope a Suspend leaves, also where the
\* tail of the scope is running
CapturesEvenInTail(f, tool) == f.kind \in ContinuationKinds

\* an __exit__ that appends a scope only while it waits at its yield
CapturesAtYield(f, tool) ==
    /\ f.kind \in ContinuationKinds
    /\ f.ph = "body"

\* Continuation.__exit__ on Suspend.  Both engines append the scope the
\* Suspend passes through while it waits at its yield; gitq also appends a
\* scope whose own tail raised the Suspend, git_quilt does not.
Captures(f, tool) ==
    /\ f.kind \in ContinuationKinds
    /\ f.ph = "body" \/ Engine(tool) = "gitq"

\* an __exit__ that closes the generator of the scope it captures while the
\* scope still has its git handle: the finally clause of DeleteTempBranch runs
ExcSuspendCaptureClosing ==
    /\ Running /\ proc.ctl.op = "exc" /\ proc.ctl.arg = "Suspend"
    /\ Captures(Top, proc.tool)
    /\ Go(IF Top.kind = "DeleteTempBranch" THEN DeleteTempBranchFinally(git, Top) ELSE git,
          [proc EXCEPT !.stack = Below, !.susp.ks = Append(@, Top)])

ExcSuspendCapture ==
    /\ Running /\ proc.ctl.op = "exc" /\ proc.ctl.arg = "Suspend"
    /\ Captures(Top, proc.tool)
    /\ Go(git, [proc EXCEPT !.stack = Below, !.susp.ks = Append(@, Top)])

\* a scope of git_quilt whose tail is running lets the Suspend through
ExcSuspendTail ==
    /\ Running /\ proc.ctl.op = "exc" /\ proc.ctl.arg = "Suspend"
    /\ Top.kind \in ContinuationKinds /\ ~Captures(Top, proc.tool)
    /\ Go(git, With(Below, proc.ctl))

\* swap, except Suspend: the status names the two commits; the try block
\* of KeepGoingUp lets the Suspend through
ExcSuspendTry ==
    /\ Running /\ proc.ctl.op = "exc" /\ proc.ctl.arg = "Suspend"
    /\ Top.kind \in {"SwapTry", "KGUTry"}
    /\ Go(git, [proc EXCEPT !.stack = Below,
                            !.susp.status = IF Top.kind = "SwapTry" THEN "swapping" ELSE @])

\* a suspend writer that serializes the captured list as it is
SuspendFileInnermostFirst(tool, e) ==
    [tool |-> tool, status |-> e.status,
     continuations |-> [i \in 1..Len(e.ks) |-> to_json_dict(e.ks[i])],
     exists |-> TRUE]

\* Continuation.suspend / Main.suspend: the file written at suspension
SuspendFile(tool, e) ==
    [tool |-> tool, status |-> e.status,
     continuations |-> [i \in 1..Len(e.ks) |-> to_json_dict(Reverse(e.ks)[i])],
     exists |-> TRUE]

\* a suspend path that leaves a file that is already there
SuspendKeepsStale ==
    /\ Running /\ proc.ctl.op = "exc" /\ proc.ctl.arg = "Suspend"
    /\ Top.kind = "Main"
    /\ file' = IF proc.resumed THEN ghost.file ELSE SuspendFile(proc.tool, proc.susp)
    /\ proc' = Exit(2)
    /\ ghost' = [ghost EXCEPT !.suspends = IF @ < MaxSuspends THEN @ + 1 ELSE @]
    /\ UNCHANGED <<git, conflicts>>

\* the Suspend reaches the driver: write continuation.json and exit 2.
\* (to_json_dict drops the scope's manager after its git handle: the finally
\* clause of a captured DeleteTempBranch, run when the generator is closed,
\* fails at its first git call and changes nothing.)
Suspend ==
    /\ Running /\ proc.ctl.op = "exc" /\ proc.ctl.arg = "Suspend"
    /\ Top.kind = "Main"
    /\ file' = SuspendFile(proc.tool, proc.susp)
    /\ proc' = Exit(2)
    /\ ghost' = [ghost EXCEPT !.suspends = IF @ < MaxSuspends THEN @ + 1 ELSE @]
    /\ UNCHANGED <<git, conflicts>>

\* the exit code when an exception other than Suspend reaches the driver:
\* Abort is reported as a cancellation, everything else exits 1 (UserError
\* and SwapFailed printed, the others as an uncaught exception)
DriverCode(e) == IF e = "Abort" THEN 0 ELSE 1

Finished == [ghost EXCEPT !.active = FALSE]

\* an exception reaches the driver
Fail ==
    /\ Running /\ proc.ctl.op = "exc" /\ proc.ctl.arg # "Suspend"
    /\ Top.kind = "Main"
    /\ proc' = Exit(DriverCode(proc.ctl.arg))
    /\ ghost' = Finished
    /\ UNCHANGED <<git, file, conflicts>>

\* the work returns to the driver: exit 0
Complete ==
    /\ Running /\ proc.ctl.op = "ret" /\ Top.kind = "Main"
    /\ proc' = Exit(0)
    /\ ghost' = Finished
    /\ UNCHANGED <<git, file, conflicts>>

(***************************************************************************)
(* The resume driver                                                        *)
(***************************************************************************)
\* a resume driver that checks only that the file exists
ResumeRefusedIfAbsent(tool) == ~file.exists

\* Continuation.resume / Main.resume refuse: no file, or another tool's
ResumeRefused(tool) == ~file.exists \/ file.tool # tool

\* the process after the file has been validated and unlinked
Resuming(tool, throw) ==
    [Idle EXCEPT !.pc = "run", !.tool = tool, !.resumed = TRUE, !.passed = TRUE,
                 !.throw = throw, !.stack = <<Frame("Main")>>,
                 !.ctl = [Ctl("reanimate", throw) EXCEPT !.cs = file.continuations]]

\* a resume driver that validates the file but leaves it in place
ResumeKeepsFile(tool, throw) ==
    /\ proc.pc = "idle"
    /\ ~ResumeRefused(tool)
    /\ proc' = Resuming(tool, throw)
    /\ UNCHANGED <<git, file, conflicts, ghost>>

\* --continue, --abort, --stop, --squash, --fixup
Resume(tool, throw) ==
    /\ proc.pc = "idle"
    /\ ~ResumeRefused(tool)
    /\ file' = NoFile
    /\ proc' = Resuming(tool, throw)
    /\ ghost' = [ghost EXCEPT !.mark = Len(ghost.log), !.file = file, !.at = git]
    /\ UNCHANGED <<git, conflicts>>

ResumeRefusal ==
    /\ proc.pc = "idle"
    /\ \E tool \in Tools : ResumeRefused(tool) /\ Refuse(tool, TRUE)

SwapResume == \E throw \in Throws : Resume("git-swap", throw)

\* git edit --continue
EditResume == Resume("git-edit", "")

\* a reanimate whose EditBranch records HEAD and detaches again
ReanimateRecapturing ==
    /\ Running /\ proc.ctl.op = "reanimate"
    /\ IF proc.ctl.cs = <<>>
       THEN Go(git, With(proc.stack, IF proc.ctl.arg # "" THEN Exc(proc.ctl.arg) ELSE Ret))
       ELSE IF Head(proc.ctl.cs).kind \notin ContinuationKinds
       THEN Go(git, With(proc.stack, Exc("KeyError")))
       ELSE IF Head(proc.ctl.cs).kind = "EditBranch"
       THEN Go(detach(git), With(Push(proc.stack, EditBranch(head(git))),
                                 [proc.ctl EXCEPT !.cs = Tail(@)]))
       ELSE Go(git, With(Push(proc.stack, FromJson(Head(proc.ctl.cs))),
                         [proc.ctl EXCEPT !.cs = Tail(@)]))

\* reanimate / r: construct the next continuation around the rest; at the
\* innermost point raise the injected instruction, or return
Reanimate ==
    /\ Running /\ proc.ctl.op = "reanimate"
    /\ IF proc.ctl.cs = <<>>
       THEN Go(git, With(proc.stack, IF proc.ctl.arg # "" THEN Exc(proc.ctl.arg) ELSE Ret))
       ELSE IF Head(proc.ctl.cs).kind \notin ContinuationKinds
       THEN Go(git, With(proc.stack, Exc("KeyError")))
       ELSE Go(git, With(Push(proc.stack, FromJson(Head(proc.ctl.cs))),
                         [proc.ctl EXCEPT !.cs = Tail(@)]))

(***************************************************************************)
(* git-edit (gitq/git_edit.py)                                              *)
(***************************************************************************)
\* Main.setup refuses
EditRefused == ~is_clean(git) \/ file.exists

\* git edit COMMIT: setup, then EditBranch, edit_commit(commit, edit=True)
\* and `raise Suspend`
EditStart(commit) ==
    LET g0 == detach(git)
        w == collect_cherries(commit, g0)
        st == <<Frame("Main"), EditBranch(head(git))>>
    IN /\ proc.pc = "idle"
       /\ ~EditRefused
       /\ ghost.nops = 0
       /\ ghost' = Begin("git-edit", SwapArgs(commit, TRUE, FALSE, FALSE))
       /\ UNCHANGED <<file, conflicts>>
       /\ IF ~w.ok
          THEN /\ git' = g0
               /\ proc' = [Idle EXCEPT !.pc = "run", !.tool = "git-edit",
                                       !.passed = TRUE, !.stack = st,
                                       !.ctl = Exc("UserError")]
          ELSE /\ git' = checkout(g0, ShaHead(commit))
               /\ proc' = [Idle EXCEPT !.pc = "run", !.tool = "git-edit",
                                       !.passed = TRUE,
                                       !.stack = edit_commit_stack(st, w.cs, TRUE),
                                       !.ctl = Exc("Suspend")]

EditStartRefused ==
    /\ proc.pc = "idle"
    /\ EditRefused
    /\ Refuse("git-edit", FALSE)

(***************************************************************************)
(* Invocations that only report                                             *)
(***************************************************************************)
\* a status query that prints the status of whatever file it finds
status_of_any(tool) ==
    IF ~file.exists THEN [out |-> "no operation in progress", code |-> 0]
    ELSE [out |-> IF file.status = NoStatus THEN "unknown" ELSE file.status, code |-> 0]

\* Continuation.status / Main.status: what --status prints and the exit
\* code of the invocation (UserError is printed by the driver, exit 1)
status(tool) ==
    IF ~file.exists THEN [out |-> "no operation in progress", code |-> 0]
    ELSE IF file.tool # tool THEN [out |-> "UserError", code |-> 1]
    ELSE [out |-> IF file.status = NoStatus THEN "unknown" ELSE file.status, code |-> 0]

\* git swap --status, git edit --status
Status(tool) ==
    /\ proc.pc = "idle"
    /\ proc' = [Idle EXCEPT !.tool = tool, !.code = status(tool).code,
                            !.out = status(tool).out]
    /\ UNCHANGED <<git, file, conflicts, ghost>>

StatusQuery == \E tool \in Tools : Status(tool)

\* a command line the tool turns down: argparse's parser.error exits 2
\* (both tools; git-swap also for two modes at once); git edit without a
\* commit prints the usage and exits 1
UsageCode(tool, how) == IF tool = "git-edit" /\ how = "no commit" THEN 1 ELSE 2

UsageError ==
    /\ proc.pc = "idle"
    /\ \E tool \in Tools, how \in {"parser", "no commit"} :
          /\ how = "no commit" => tool = "git-edit"
          /\ proc' = [Idle EXCEPT !.tool = tool, !.code = UsageCode(tool, how),
                                  !.out = "usage"]
    /\ UNCHANGED <<git, file, conflicts, ghost>>

(***************************************************************************)
(* The user, between two invocations                                        *)
(***************************************************************************)
\* the user resolves the conflict and stages a tree: the merge result, the
\* merge result with an edit of their own, or the tree of HEAD (the change
\* of the cherry is dropped)
UserResolve ==
    /\ proc.pc = "idle"
    /\ cherry_pick_in_progress(git) /\ has_unmerged_files(git)
    /\ \E t \in {PickTree(git, git.CHERRY_PICK_HEAD),
                  PickTree(git, git.CHERRY_PICK_HEAD) \cup {U},
                  TreeOf(HeadCommit(git))} :
          git' = [git EXCEPT !.unmerged = FALSE, !.index = t]
    /\ UNCHANGED <<file, proc, conflicts, ghost>>

\* the user runs git cherry-pick --continue
UserCommit ==
    /\ proc.pc = "idle"
    /\ cherry_pick_in_progress(git) /\ ~has_unmerged_files(git)
    /\ cherry_pick_continue_ok(git)
    /\ git' = cherry_pick_continue(git)
    /\ ghost' = [ghost EXCEPT !.log = Append(@, Event("usercommit", HeadCommit(git')))]
    /\ UNCHANGED <<file, proc, conflicts>>

\* the user amends HEAD while git-edit is suspended
UserAmend ==
    LET c == HeadCommit(git)
        e == [Last(c) EXCEPT !.t = @ \cup {U}]
    IN /\ proc.pc = "idle"
       /\ file.exists /\ file.tool = "git-edit"
       /\ ~cherry_pick_in_progress(git) /\ is_clean(git)
       /\ U \notin TreeOf(c)
       /\ git' = [git EXCEPT !.HEAD = ShaHead(Append(Parent(c), e)), !.index = e.t]
       /\ UNCHANGED <<file, proc, conflicts, ghost>>

\* the user stages a change while no operation is in progress
UserDirty ==
    /\ proc.pc = "idle"
    /\ ~file.exists /\ is_clean(git) /\ U \notin git.index
    /\ git' = [git EXCEPT !.index = @ \cup {U}]
    /\ UNCHANGED <<file, proc, conflicts, ghost>>

\* the file of a suspended operation comes to name a kind that is not in
\* ContinuationClass.types (written by another version of the tools, or
\* edited): one record, anywhere in the list
ForeignRecord ==
    /\ proc.pc = "idle" /\ file.exists
    /\ \A r \in Range(file.continuations) : r.kind \in ContinuationKinds
    /\ \E i \in 1..Len(file.continuations) :
          file' = [file EXCEPT !.continuations[i].kind = "NoSuchKind"]
    /\ UNCHANGED <<git, proc, conflicts, ghost>>

(***************************************************************************)
(* Initial states: a linear branch of MaxCommits commits, commit i adding   *)
(* atom i; possibly one merge commit, a baseline, a branch called temp-0,   *)
(* a detached HEAD; and a conflict relation.                                *)
(***************************************************************************)
InitialCommit(n, mergeAt) ==
    [i \in 1..n |-> Entry(<<i>>, i, 1..i, i = mergeAt)]

Pairs == {{a, b} : a, b \in Atoms} \ {{a} : a \in Atoms}
ConflictSets == {S \in SUBSET Pairs : Cardinality(S) <= MaxConflicts}
\* the conflict relations of the repositories with a baseline, a detached
\* HEAD or a temp-0 branch: no pair or one
FewConflicts == {S \in ConflictSets : Cardinality(S) <= 1}

InitialGit(tip, detached, temp, bl) ==
    [HEAD |-> IF detached THEN ShaHead(tip) ELSE SymHead(Master),
     branches |-> [b \in BranchNames |->
                     IF b = Master THEN tip
                     ELSE IF b = TempName(0) /\ temp THEN Parent(tip) ELSE NoCommit],
     index |-> TreeOf(tip),
     unmerged |-> FALSE,
     CHERRY_PICK_HEAD |-> NoCommit,
     baseline |-> bl]

NoGhost == [pre |-> InitialGit(NoCommit, FALSE, FALSE, NoCommit), args |-> NoArgs,
            tool |-> "", nops |-> 0, log |-> <<>>, suspends |-> 0, active |-> FALSE,
            mark |-> 0, file |-> NoFile,
            at |-> InitialGit(NoCommit, FALSE, FALSE, NoCommit)]

Linear == InitialCommit(MaxCommits, 0)

\* HEAD on master: no baseline and any conflicts, or a baseline
InitLinear ==
    \/ /\ git = InitialGit(Linear, FALSE, FALSE, NoCommit)
       /\ conflicts \in ConflictSets
    \/ /\ \E b \in 1..MaxCommits : git = InitialGit(Linear, FALSE, FALSE, SubSeq(Linear, 1, b))
       /\ conflicts \in FewConflicts

\* one commit of the branch is a merge
InitMerge ==
    /\ \E mergeAt \in 1..MaxCommits :
          git = InitialGit(InitialCommit(MaxCommits, mergeAt), FALSE, FALSE, NoCommit)
    /\ conflicts = {}

\* HEAD is detached, or a branch called temp-0 exists already
InitOther ==
    /\ \E detached \in BOOLEAN :
          git = InitialGit(Linear, detached, ~detached, NoCommit)
    /\ conflicts \in FewConflicts

Init ==
    /\ InitLinear \/ InitMerge \/ InitOther
    /\ file = NoFile
    /\ proc = Idle
    /\ ghost = NoGhost

SwapStarts ==
    \E commit \in Ancestors(HeadCommit(git)) \cup {NoCommit},
       edit \in BOOLEAN, keep_going \in BOOLEAN, up \in BOOLEAN :
        SwapStart(commit, edit, keep_going, up)

EditStarts == \E commit \in Ancestors(HeadCommit(git)) : EditStart(commit)

Next ==
    \/ SwapStarts \/ SwapStartRefused \/ EditStartRefused \/ ResumeRefusal
    \/ SwapMainDown \/ SwapMainUp
    \/ SwapOrSquash \/ Swap \/ SwapCherryPick
    \/ RetEditBranch \/ RetPickCherries \/ RetCherryPickContinue
    \/ RetDeleteTempBranch \/ RetPickCherryWithReference \/ RetPop
    \/ RetKeepGoing \/ RetKeepGoingUp
    \/ ExcEditBranch \/ ExcCherryPickContinue \/ ExcDeleteTempBranch
    \/ ExcSwapCheckpoint \/ ExcOrSquash \/ ExcKeepGoing \/ ExcCatchStop
    \/ ExcKeepGoingUp \/ ExcSwapTry \/ ExcKGUTry \/ ExcPass
    \/ ExcSuspendCapture \/ ExcSuspendTail \/ ExcSuspendTry
    \/ Suspend \/ Fail \/ Complete
    \/ SwapResume \/ EditResume \/ Reanimate
    \/ EditStarts
    \/ UserResolve \/ UserCommit \/ UserAmend \/ UserDirty

Spec == Init /\ [][Next]_vars

\* the tools with the invocations that only report: --status and command
\* lines that are turned down
NextReports == Next \/ StatusQuery \/ UsageError

\* what a report prints depends on the file alone: one conflicting pair at
\* most is enough to get every kind of file
InitReports == Init /\ conflicts \in FewConflicts

SpecReports == InitReports /\ [][NextReports]_vars

\* the tools run against files they did not all write themselves
NextForeign == Next \/ ForeignRecord

SpecForeign == InitReports /\ [][NextForeign]_vars

\* an invocation that has begun runs on: the interpreter executes the next
\* statement of a running process until the process exits (the user acts
\* only between invocations)
ProcessStep == Running /\ Next

\* whether an invocation ends depends on the length of the history and on
\* where a conflict is met, not on how many pairs conflict: one pair at most
SpecFair == InitReports /\ [][Next]_vars /\ WF_vars(ProcessStep)

(***************************************************************************)
(* Properties                                                               *)
(***************************************************************************)
\* the invocation that ran last has exited and had got past its checks
Exited == proc.pc = "idle" /\ proc.passed
\* how many events of one kind the operation has logged
Count(what) == Cardinality({i \in 1..Len(ghost.log) : ghost.log[i].what = what})

\* C1: when an invocation that got past its precondition checks has exited,
\* continuation.json exists if and only if the exit code is 2, and then its
\* tool field names the invoking tool; so after a start, re-suspending
\* resumes and a resume that completes, the file does not exist.
C1_FileIffSuspended ==
    Exited => /\ file.exists <=> proc.code = 2
              /\ file.exists => file.tool = proc.tool

\* a resume completed normally after the operation had suspended twice
C1_Witness ==
    /\ Exited /\ proc.resumed /\ proc.code = 0
    /\ ghost.suspends >= 2
    /\ ~file.exists

\* the process exits in this step
Exits == Running /\ proc'.pc = "idle"
\* the repository is as it was before the operation began: HEAD on the same
\* branch (or detached at the same sha), every ref where it was, nothing
\* staged, no cherry-pick under way
Restored(g) ==
    /\ g.HEAD = ghost.pre.HEAD
    /\ g.branches = ghost.pre.branches
    /\ g.index = TreeOf(HeadCommit(g))
    /\ ~g.unmerged
    /\ ~cherry_pick_in_progress(g)

\* C2: whenever git swap --abort runs against a suspended swap, it exits 0
\* with continuation.json absent, HEAD back on the original branch (or
\* detached at the original sha) at the pre-operation sha, the branch ref
\* unchanged, no cherry-pick in progress and a clean worktree.
C2_AbortRestores ==
    [][(Exits /\ proc.tool = "git-swap" /\ proc.throw = "Abort")
          => /\ proc'.code = 0
             /\ ~file'.exists
             /\ Restored(git')]_vars

\* an abort has restored a --keep-going swap that had suspended twice
C2_Witness ==
    /\ Exited /\ proc.tool = "git-swap" /\ proc.throw = "Abort" /\ proc.code = 0
    /\ ghost.args.keep_going /\ ghost.suspends >= 2
    /\ Restored(git)

\* an abort has restored a swap of the root commit whose paused cherry-pick
\* the user had already committed on the temporary branch
C2_WitnessOrphan ==
    /\ Exited /\ proc.tool = "git-swap" /\ proc.throw = "Abort" /\ proc.code = 0
    /\ \E i \in 1..Len(ghost.log) :
          ghost.log[i].what = "usercommit" /\ IsRoot(ghost.log[i].c)
    /\ Restored(git)

\* the commit that was HEAD when the innermost swap on the stack began
\* (the head recorded by its SwapCheckpoint)
SwapOne ==
    LET at == {i \in 1..Len(proc.stack) : proc.stack[i].kind = "SwapCheckpoint"}
        top == CHOOSE i \in at : \A j \in at : j <= i
    IN proc.stack[top].x
\* the step in which a swap succeeds: the second commit is recorded
SwapSucceeds == AtRet("PickCherryWithReference") /\ proc'.stack = Below
\* a swap of the operation has succeeded
Swapped == \E i \in 1..Len(ghost.log) : ghost.log[i].what = "reference"
PreHead == HeadCommit(ghost.pre)

\* C3: when a swap of HEAD (one) with its parent succeeds, directly or
\* after suspends and resumes and whatever tree the cherry-pick or the
\* user's resolution produced, the new HEAD has the tree of one; and when
\* the invocation is over (it did not suspend) HEAD has the tree that HEAD
\* had before the operation.
C3_SwapKeepsTree ==
    [][/\ SwapSucceeds => TreeOf(HeadCommit(git')) = TreeOf(SwapOne)
       /\ (Exits /\ proc.tool = "git-swap" /\ proc'.code # 2 /\ Swapped)
             => TreeOf(HeadCommit(git')) = TreeOf(PreHead)]_vars

\* a swap has finished after a suspension in which the user resolved the
\* conflict with an edit of their own: the first commit of the swapped
\* pair has the edit in its tree, HEAD has the pre-operation tree
C3_Witness ==
    /\ Exited /\ proc.tool = "git-swap" /\ proc.code = 0
    /\ Swapped /\ ghost.suspends >= 1
    /\ U \in TreeOf(Parent(HeadCommit(git)))
    /\ TreeOf(HeadCommit(git)) = TreeOf(PreHead)

\* a new operation starts in this step / a start is turned down in this step
Starts == proc.pc = "idle" /\ proc'.pc = "run" /\ ~proc'.resumed
StartRefused == proc.pc = "idle" /\ proc'.pc = "idle" /\ proc' # proc /\ ~proc'.resumed
                /\ proc'.out = ""

C4_WitnessDirty ==
    /\ proc.pc = "idle" /\ proc.tool = "git-edit" /\ ~proc.resumed /\ ~proc.passed
    /\ proc.code = 1
    /\ ~file.exists /\ ~is_clean(git)

\* the commits a suspended stack has set aside, in the order in which its
\* scopes re-apply them: the cherries of the innermost scope first
RECURSIVE SetAside(_)
SetAside(ks) ==
    IF ks = <<>> THEN <<>>
    ELSE SetAside(Tail(ks)) \o
         (IF Head(ks).kind \in {"PickCherries", "KeepGoingUp"} THEN Head(ks).cs ELSE <<>>)
\* the commits cherry-picked since the running invocation began
RECURSIVE PicksFrom(_, _)
PicksFrom(log, i) ==
    IF i > Len(log) THEN <<>>
    ELSE (IF log[i].what = "pick" THEN <<log[i].c>> ELSE <<>>) \o PicksFrom(log, i + 1)
Picked == PicksFrom(ghost'.log, ghost'.mark + 1)

\* C5: when a suspended swap is resumed with --stop, --squash or --fixup,
\* in every mode, every commit the suspended stack had set aside is
\* cherry-picked again exactly once and in order, and the final HEAD has the
\* tree HEAD had before the operation.
C5_StopReapplies ==
    [][(Exits /\ proc.tool = "git-swap" /\ proc.throw \in ResumeKinds)
          => /\ Picked = SetAside(ghost'.file.continuations)
             /\ TreeOf(HeadCommit(git')) = TreeOf(PreHead)]_vars

\* the same holds in every mode but a plain --up: there main enters the
\* PickCherries of the commits set aside inside CatchStop, so that the Stop
\* leaves the PickCherries scope at its yield before CatchStop absorbs it
ReappliesUnlessPlainUp ==
    [][(Exits /\ proc.tool = "git-swap" /\ proc.throw \in ResumeKinds
          /\ ~(ghost.args.up /\ ~ghost.args.keep_going))
          => /\ proc'.code = 0
             /\ Picked = SetAside(ghost'.file.continuations)
             /\ TreeOf(HeadCommit(git')) = TreeOf(PreHead)]_vars

\* a --keep-going swap was stopped and the commits set aside were picked
StoppedKeepGoing ==
    /\ Exited /\ proc.tool = "git-swap" /\ proc.throw = "Stop" /\ proc.code = 0
    /\ ghost.args.keep_going
    /\ SetAside(ghost.file.continuations) # <<>>
    /\ PicksFrom(ghost.log, ghost.mark + 1) = SetAside(ghost.file.continuations)

\* the message of the commit the swap was asked to move
Target == IF ghost.args.commit = NoCommit THEN Last(PreHead).m ELSE Last(ghost.args.commit).m
Without(ms, m) == SelectSeq(ms, LAMBDA x : x # m)
Pos(ms, m) == CHOOSE i \in 1..Len(ms) : ms[i] = m
\* would the cherry-pick of c onto the commit base conflict
WouldConflict(c, base) == PickConflicts([index |-> TreeOf(base)], c)
\* the swap of commit one with its parent cannot succeed without help
CannotSwap(one, bl, edit) ==
    LET two == Parent(one)
    IN \/ two = NoCommit
       \/ IsMerge(one) \/ IsMerge(two)
       \/ two \in Range(bl)
       \/ ~edit /\ WouldConflict(one, Parent(two))

\* the target may pass the k-th commit of the original branch: neither is
\* a merge and the commit is not a baseline
Passable(k, bl) ==
    LET X == SubSeq(PreHead, 1, k)
        T == SubSeq(PreHead, 1, Pos(Msgs(PreHead), Target))
    IN ~IsMerge(X) /\ ~IsMerge(T) /\ X \notin Range(bl)

\* the branch c is the branch before the operation with only the target
\* moved, down as far as it goes (or up with --up)
MovedOnlyTarget(c) ==
    LET a == ghost.args
        ms == Msgs(c)
        q == Pos(ms, Target)
        p == Pos(Msgs(PreHead), Target)
        bl == baselines(ghost.pre, ghost.pre.HEAD)
    IN /\ Cardinality({i \in 1..Len(ms) : ms[i] = Target}) = 1
       /\ Without(ms, Target) = Without(Msgs(PreHead), Target)
       /\ IF a.up
          THEN /\ q >= p
               /\ \A k \in (p + 1)..q : Passable(k, <<>>)
               /\ q = Len(ms) \/ CannotSwap(SubSeq(c, 1, q + 1), <<>>, a.edit)
          ELSE /\ q <= p
               /\ \A k \in q..(p - 1) : Passable(k, bl)
               /\ CannotSwap(SubSeq(c, 1, q), bl, a.edit)

C6_WitnessUp ==
    /\ Exited /\ proc.tool = "git-swap" /\ proc.throw = "" /\ proc.code = 0
    /\ ghost.args.keep_going /\ ghost.args.up /\ ghost.suspends >= 1
    /\ Pos(Msgs(HeadCommit(git)), Target) >= Pos(Msgs(PreHead), Target) + 2
    /\ MovedOnlyTarget(HeadCommit(git))

\* a --keep-going swap has ended with the target held back by a conflict
C6_WitnessConflict ==
    /\ Exited /\ proc.tool = "git-swap" /\ proc.throw = "" /\ proc.code = 0
    /\ ghost.args.keep_going /\ ~ghost.args.up /\ ~ghost.args.edit
    /\ Pos(Msgs(HeadCommit(git)), Target) = 2
    /\ Pos(Msgs(PreHead), Target) = 3
    /\ ghost.pre.baseline = NoCommit

\* the baselines of the branch the operation began on
BranchBaselines == baselines(ghost.pre, ghost.pre.HEAD)
\* swap() is about to run on HEAD and its parent
SwapBegins == Running /\ proc.ctl.op = "body" /\ proc.ctl.arg = "swap"
\* the commit c is still part of the history of HEAD, where it was
Below2(c, g) == SubSeq(HeadCommit(g), 1, Len(c)) = c

\* C7: in every mode, also after a resume, when the lower commit of the
\* pair to be swapped is a baseline of the branch the swap fails with
\* SwapFailed before it changes the repository; so when the operation is
\* over every baseline commit is where it was, with nothing put below it.
C7_NeverCrossesBaseline ==
    [][/\ (SwapBegins /\ Parent(HeadCommit(git)) \in Range(BranchBaselines))
            => proc'.ctl = Exc("SwapFailed") /\ git' = git
       /\ (Exits /\ proc.tool = "git-swap" /\ proc'.code # 2)
            => \A b \in Range(BranchBaselines) : Below2(b, git')]_vars

\* without --up the swap does fail at a baseline, before any change
BaselineStopsDown ==
    [][(SwapBegins /\ ~ghost.args.up /\ Parent(HeadCommit(git)) \in Range(BranchBaselines))
            => proc'.ctl = Exc("SwapFailed") /\ git' = git]_vars

\* a --keep-going swap has been held back by the baseline
HitBaseline ==
    /\ Running /\ proc.ctl = Exc("SwapFailed") /\ ghost.args.keep_going
    /\ Parent(HeadCommit(git)) \in Range(BranchBaselines)
    /\ Swapped

\* entry e has the message and the author of commit c and is no merge
Carries(e, c) == e.m = Last(c).m /\ e.a = Last(c).a /\ ~e.mg

\* C8: a successful swap of HEAD `one` (parent `two`, grandparent `three`
\* or none) leaves HEAD at two' whose parent is one' whose parent is three
\* (none when two was a root, so that one' is a root); one' has one's
\* message and author, two' has two's; the history is as long as it was,
\* and so is the branch when the operation has completed.
C8_SwapChain ==
    [][/\ SwapSucceeds =>
            LET one == SwapOne
                two == Parent(one)
                three == Parent(two)
                new == HeadCommit(git')
            IN /\ Len(new) = Len(one)
               /\ Parent(Parent(new)) = three
               /\ Carries(Last(Parent(new)), one)
               /\ Carries(Last(new), two)
               /\ IsRoot(two) => IsRoot(Parent(new))
       /\ (Exits /\ proc.tool = "git-swap" /\ proc.throw = "" /\ proc'.code = 0)
            => Len(HeadCommit(git')) = Len(PreHead)]_vars

\* the swap of a root commit with its child has just completed, after a
\* conflict that the user resolved
C8_Witness ==
    /\ Running /\ ghost.log # <<>> /\ ghost.log[Len(ghost.log)].what = "reference"
    /\ proc.ctl.op = "ret" /\ Top.kind = "DeleteTempBranch"
    /\ IsRoot(Parent(HeadCommit(git)))
    /\ Carries(Last(HeadCommit(git)), ghost.log[Len(ghost.log)].c)
    /\ ghost.suspends >= 1

\* the cherry-picks the operation has begun, clean or not, in order
Started ==
    LET s == SelectSeq(ghost.log, LAMBDA e : e.what \in {"pick", "conflict"})
    IN [i \in 1..Len(s) |-> s[i].c]
\* the commits that cherry-picks of the operation have recorded
Recorded == Count("pick") + Count("continue") + Count("usercommit")
\* the list of the PickCherries scope of git edit COMMIT
EditCherries == collect_cherries(ghost.args.commit, ghost.pre).cs
\* git-edit at rest, suspended or completed: the cherries begun so far and
\* the cherries in the file make up the initial list, and every cherry
\* begun has been recorded once, but for the one that is paused
EditPickedOnce ==
    /\ Started \o SetAside(file.continuations) = EditCherries
    /\ Recorded = Len(Started) - (IF cherry_pick_in_progress(git) THEN 1 ELSE 0)
    /\ ~file.exists => /\ Msgs(HeadCommit(git)) = Msgs(PreHead)
                        /\ ~cherry_pick_in_progress(git)

\* C9: a PickCherries scope with list c1..cn picks each ci exactly once and
\* in order, whatever conflicts, suspensions and --continue resumes happen
\* on the way to a normal completion: at every suspension the cherries
\* begun (picked, or paused under CherryPickContinue) are not in the
\* `cherries` the file holds, which are exactly the ones not yet begun; at
\* completion all have been begun and recorded once.  For git-swap, which
\* picks outside PickCherries as well, the picks of a --continue that
\* completes a swap without --keep-going are the cherries of the file.
C9_PickedOnce ==
    [][/\ (Exits /\ proc.tool = "git-edit" /\ proc'.code \in {0, 2}) => EditPickedOnce'
       /\ (Exits /\ proc.tool = "git-swap" /\ proc.throw = "" /\ proc.resumed
                 /\ ~ghost.args.keep_going /\ proc'.code = 0)
            => Picked = SetAside(ghost'.file.continuations)]_vars

\* git edit has completed after its PickCherries picked one cherry that
\* conflicted with the user's edit and one that did not
C9_Witness ==
    /\ Exited /\ proc.tool = "git-edit" /\ proc.code = 0
    /\ ghost.suspends >= 2
    /\ Len(EditCherries) = 2 /\ Started = EditCherries
    /\ Count("pick") = 1 /\ Count("conflict") = 1

\* git edit has suspended in the second of two cherries
C9_WitnessSuspended ==
    /\ Exited /\ proc.tool = "git-edit" /\ proc.code = 2
    /\ Len(Started) = 2 /\ Count("conflict") = 1
    /\ SetAside(file.continuations) = <<>>

\* the cherry whose cherry-pick was paused last
PausedCherry ==
    LET at == {i \in 1..Len(ghost.log) : ghost.log[i].what = "conflict"}
    IN ghost.log[CHOOSE i \in at : \A j \in at : j <= i].c
\* the history of HEAD in g has exactly one commit for cherry c, on top
OneCommitFor(c, g) ==
    /\ Carries(Last(HeadCommit(g)), c)
    /\ Cardinality({i \in 1..Len(HeadCommit(g)) : HeadCommit(g)[i].m = Last(c).m}) = 1
\* the tail of CherryPickContinue runs in this step
Finishing == AtRet("CherryPickContinue")
\* the repository a resume found has a cherry-pick with unmerged files
Unresolved(g) == cherry_pick_in_progress(g) /\ has_unmerged_files(g)

\* C10: --continue on a paused cherry-pick.  While unmerged files remain
\* the invocation changes nothing in the repository, exits 2 and writes a
\* file with the continuations it read, kind by kind and attribute by
\* attribute, in the same order, however often it is repeated.  Once they
\* are resolved the tail of CherryPickContinue runs cherry-pick --continue
\* if the cherry-pick is still in progress and leaves the repository alone
\* if the user has completed it; either way HEAD is then the one commit
\* for the cherry and no cherry-pick is in progress.
C10_ContinueIdempotent ==
    [][/\ (Exits /\ proc.resumed /\ proc.throw = "" /\ Unresolved(ghost.at))
            => /\ proc'.code = 2
               /\ file'.exists /\ file'.tool = ghost.file.tool
               /\ file'.continuations = ghost.file.continuations
               /\ git' = ghost.at
       /\ (Finishing /\ ~Unresolved(git))
            => /\ ~cherry_pick_in_progress(git')
               /\ OneCommitFor(PausedCherry, git')
               /\ IF cherry_pick_in_progress(git)
                  THEN HeadCommit(git') = Append(HeadCommit(git), Last(HeadCommit(git')))
                  ELSE git' = git
       /\ (Finishing /\ Unresolved(git)) => git' = git /\ proc'.ctl = Exc("Suspend")]_vars

\* what holds: the same, for a resolution that leaves something to commit
ContinueFinishesChange ==
    [][/\ (Exits /\ proc.resumed /\ proc.throw = "" /\ Unresolved(ghost.at))
            => /\ proc'.code = 2
               /\ file'.exists /\ file'.tool = ghost.file.tool
               /\ file'.continuations = ghost.file.continuations
               /\ git' = ghost.at
       /\ (Finishing /\ ~Unresolved(git)
              /\ (cherry_pick_in_progress(git) => cherry_pick_continue_ok(git)))
            => /\ ~cherry_pick_in_progress(git')
               /\ OneCommitFor(PausedCherry, git')
               /\ IF cherry_pick_in_progress(git)
                  THEN HeadCommit(git') = Append(HeadCommit(git), Last(HeadCommit(git')))
                  ELSE git' = git
       /\ (Finishing /\ Unresolved(git)) => git' = git /\ proc'.ctl = Exc("Suspend")]_vars

\* a swap has been resumed twice with unmerged files left, and has written
\* the same continuations each time
C10_Witness ==
    /\ Exited /\ proc.tool = "git-swap" /\ proc.resumed /\ proc.throw = ""
    /\ proc.code = 2 /\ ghost.suspends >= 2
    /\ Unresolved(git) /\ git = ghost.at
    /\ file.continuations = ghost.file.continuations
    /\ Len(file.continuations) >= 6

\* the tail of CherryPickContinue has found the cherry-pick completed by
\* the user / has completed it itself, for either tool
C10_WitnessUserDone ==
    /\ Running /\ proc.resumed /\ proc.ctl.op = "ret" /\ proc.tool = "git-edit"
    /\ ghost.log # <<>> /\ ghost.log[Len(ghost.log)].what = "usercommit"
    /\ Len(ghost.log) = ghost.mark /\ ghost.suspends >= 2
    /\ Top.kind = "PickCherries"
    /\ OneCommitFor(PausedCherry, git)
C10_WitnessToolDone ==
    /\ Running /\ proc.resumed /\ proc.ctl.op = "ret" /\ proc.tool = "git-swap"
    /\ ghost.log # <<>> /\ ghost.log[Len(ghost.log)].what = "continue"
    /\ Top.kind = "PickCherryWithReference"
    /\ OneCommitFor(PausedCherry, git)

\* the records of a sequence of scopes / the scopes built from records
Records(st) == [i \in 1..Len(st) |-> to_json_dict(st[i])]
Rebuilt(ks) == [i \in 1..Len(ks) |-> FromJson(ks[i])]
\* the scopes of the stack that a Suspend raised inside them captures: the
\* continuations whose body is running (and, under gitq, the one whose
\* tail raised)
Active(st) == SelectSeq(st, LAMBDA f : Captures(f, proc.tool))
SuspendRises == Running /\ proc.ctl.op = "exc" /\ proc.ctl.arg = "Suspend"
\* the nesting a Suspend on its way up stands for: the active scopes it
\* has still to pass, then the ones it has captured, outermost first
Nesting(p) == Records(SelectSeq(p.stack, LAMBDA f : Captures(f, p.tool))) \o
              Records(Reverse(p.susp.ks))

\* C11: a Suspend raised inside the nesting c1 (outermost) .. cn captures
\* the scopes innermost first; the file lists c1..cn; the resume driver
\* rebuilds c1 around c2 .. around cn, each waiting at its yield, and raises
\* the injected instruction (or returns) inside cn.  No scope is lost,
\* doubled or moved on the way.
C11_NestingPreserved ==
    [][/\ (~SuspendRises /\ SuspendRises') => proc'.susp.ks = <<>>
       /\ (SuspendRises /\ SuspendRises') => Nesting(proc') = Nesting(proc)
       /\ (SuspendRises /\ Exits)
            => /\ Active(proc.stack) = <<>>
               /\ file'.continuations = Records(Reverse(proc.susp.ks))
       /\ (Running /\ proc.ctl.op = "reanimate")
            => /\ Tail(proc.stack) \o Rebuilt(proc.ctl.cs) = Rebuilt(ghost.file.continuations)
               /\ proc.ctl.cs = <<>>
                    => /\ proc'.stack = proc.stack
                       /\ proc'.ctl = IF proc.throw = "" THEN Ret ELSE Exc(proc.throw)]_vars

\* the driver has rebuilt a nesting of seven or more scopes from the file
\* and has raised Stop inside the innermost
C11_Witness ==
    /\ Running /\ proc.resumed /\ proc.ctl = Exc("Stop")
    /\ Len(ghost.file.continuations) >= 7
    /\ Tail(proc.stack) = Rebuilt(ghost.file.continuations)
    /\ Top.kind = "CherryPickContinue"

\* the attributes of a scope or record (everything but the kind and the
\* running generator) and the constructor's keyword parameters per kind
AttrNames == {"h", "x", "y", "cs", "edit", "br"}
Attrs(f) == [n \in AttrNames |-> f[n]]
Params(kind, tool) ==
    CASE kind = "EditBranch" -> {"h"}
      [] kind = "PickCherries" -> IF Engine(tool) = "gitq" THEN {"cs", "edit"} ELSE {"cs"}
      [] kind = "CherryPickContinue" -> IF Engine(tool) = "gitq" THEN {"x"} ELSE {}
      [] kind = "DeleteTempBranch" -> {"br", "h"}
      [] kind = "PickCherryWithReference" -> {"x", "y"}
      [] kind \in {"OrSquash", "SwapCheckpoint"} -> {"x"}
      [] kind \in {"KeepGoing", "KeepGoingUp"} -> {"edit", "cs"}
      [] OTHER -> {}
\* a record round-trips: it names the kind, carries the scope's attributes,
\* nothing outside the constructor's parameters and no generator, and the
\* constructor called with it gives a scope with the same attributes, at
\* its yield
RoundTrips(f, tool) ==
    LET r == to_json_dict(f) IN
    /\ r.kind = f.kind
    /\ Attrs(r) = Attrs(f)
    /\ \A n \in AttrNames \ Params(f.kind, tool) : r[n] = Frame(f.kind)[n]
    /\ r.ph = Frame(f.kind).ph /\ r.i = Frame(f.kind).i
    /\ FromJson(r).kind = f.kind
    /\ Attrs(FromJson(r)) = Attrs(f)
    /\ FromJson(r).ph = "body"
\* attribute values: the commits of the initial branch, a squashed root,
\* the heads naming them, lists of up to two commits
SampleCommits ==
    {SubSeq(Linear, 1, n) : n \in 0..MaxCommits} \cup
    {<<Entry(<<2, 1>>, 2, 1..2, FALSE)>>}
SampleHeads ==
    {SymHead(b) : b \in BranchNames} \cup {ShaHead(c) : c \in SampleCommits \ {NoCommit}}
SampleLists ==
    {<<>>} \cup {<<c>> : c \in SampleCommits} \cup
    {<<c, d>> : c \in SampleCommits, d \in SampleCommits}
Instances(tool) ==
    {EditBranch(h) : h \in SampleHeads} \cup
    {PickCherries(cs, e) : cs \in SampleLists,
        e \in IF Engine(tool) = "gitq" THEN BOOLEAN ELSE {FALSE}} \cup
    {CherryPickContinue(c) : c \in IF Engine(tool) = "gitq" THEN SampleCommits ELSE {NoCommit}} \cup
    {DeleteTempBranch(b, h) : b \in BranchNames, h \in SampleHeads} \cup
    {PickCherryWithReference(c, d) : c \in SampleCommits, d \in SampleCommits} \cup
    {OrSquash(c) : c \in SampleCommits} \cup
    {SwapCheckpoint(c) : c \in SampleCommits} \cup
    {KeepGoing(e, cs) : e \in BOOLEAN, cs \in SampleLists} \cup
    {KeepGoingUp(e, cs) : e \in BOOLEAN, cs \in SampleLists} \cup
    {CatchStop}
EveryInstanceRoundTrips ==
    \A tool \in Tools : \A f \in Instances(tool) : RoundTrips(f, tool)
Continuations(st) == SelectSeq(st, LAMBDA f : f.kind \in ContinuationKinds)

RefusesResume == proc.pc = "idle" /\ proc'.pc = "idle" /\ proc' # proc /\ proc'.resumed
\* an invocation of the resume family gets past its checks in this step
BeginsResume == proc.pc = "idle" /\ proc'.pc = "run" /\ proc'.resumed

\* C13: a --continue, --abort, --stop, --squash or --fixup of a tool goes
\* on only when continuation.json exists and names that tool; otherwise it
\* ends with exit code 1 having built no continuation, with the file and
\* the repository as they were; and whenever the file exists and no tool
\* is running, the tool it names can resume.
C13_RefusedResumeHarmless ==
    /\ [][/\ BeginsResume => file.exists /\ file.tool = proc'.tool
          /\ RefusesResume
               => /\ ~file.exists \/ file.tool # proc'.tool
                  /\ proc'.code = 1 /\ proc'.stack = <<>> /\ ~proc'.passed
                  /\ file' = file /\ git' = git /\ conflicts' = conflicts
          /\ (proc.pc = "idle" /\ ~file.exists) => ~BeginsResume]_vars
    /\ [](proc.pc = "idle" /\ file.exists
            => \A throw \in (IF file.tool = "git-swap" THEN Throws ELSE {""}) :
                  ENABLED Resume(file.tool, throw))

\* git edit --continue has just been refused, exit 1, while a git-swap is
\* suspended on a conflict; its file is in place
C13_Witness ==
    /\ proc.pc = "idle" /\ proc.resumed /\ ~proc.passed /\ proc.code = 1
    /\ proc.tool = "git-edit"
    /\ file.exists /\ file.tool = "git-swap" /\ Len(file.continuations) >= 5
    /\ cherry_pick_in_progress(git)

\* the step of the suspend path that ends the process
Suspends == SuspendRises /\ Exits
\* the file the suspend path makes of the scopes this run captured
Fresh(p) == [tool |-> p.tool, status |-> p.susp.status,
             continuations |-> Records(Reverse(p.susp.ks)), exists |-> TRUE]

\* C14: continuation.json changes in two kinds of step only.  The suspend
\* path writes it, always from the scopes captured in this run.  The resume
\* driver deletes it in the step in which it has found it and found it to
\* be its own, before any continuation is built; from then on the file
\* does not exist until the run suspends again, so it is deleted once per
\* resume, and a re-suspension never leaves the file the resume began with.
C14_FileLifecycle ==
    /\ [][/\ file' # file => Suspends \/ BeginsResume
          /\ Suspends => file' = Fresh(proc) /\ ~file.exists /\ proc'.code = 2
          /\ BeginsResume
               => /\ file.exists /\ file.tool = proc'.tool
                  /\ ~file'.exists
                  /\ Continuations(proc'.stack) = <<>>
                  /\ proc'.ctl.op = "reanimate" /\ proc'.ctl.cs = file.continuations
                  /\ git' = git]_vars
    /\ [](Running /\ proc.resumed => ~file.exists)

\* a resumed run has suspended again, for the second time or later, and
\* the file it wrote differs from the one the resume deleted
C14_Witness ==
    /\ Exited /\ proc.resumed /\ proc.code = 2
    /\ file.exists /\ ghost.file.exists /\ file # ghost.file
    /\ ghost.suspends >= 2

\* the step in which OrSquash handles Squash or Fixup and makes the commit
Squashes == AtExc("OrSquash") /\ proc.ctl.arg \in {"Fixup", "Squash"} /\ SquashOk(Top.x)
\* the commit made in that step is B and A in one: on C (a root when there
\* is no C), with the tree of A, the author of B and the message of B, or
\* of B then A
SquashedCommit ==
    LET A == Top.x
        B == Parent(A)
        S == HeadCommit(git')
    IN /\ Parent(S) = Parent(B)
       /\ ~Last(S).mg
       /\ TreeOf(S) = TreeOf(A)
       /\ Last(S).a = Last(B).a
       /\ Last(S).m = IF proc.ctl.arg = "Fixup" THEN Last(B).m
                      ELSE Last(B).m \o Last(A).m
       /\ git'.index = TreeOf(A) /\ ~cherry_pick_in_progress(git')
\* a resume with --squash or --fixup that squashed ends with exit 0
SquashDone ==
    /\ Exits /\ proc.tool = "git-swap" /\ proc.throw \in {"Squash", "Fixup"}
    /\ proc'.code = 0
    /\ \E i \in 1..Len(ghost.log) : ghost.log[i].what = "squash"
\* the branch (or the detached HEAD) is one commit shorter than before the
\* operation and has the same tree
OneFewer ==
    /\ git'.HEAD.ref = ghost.pre.HEAD.ref
    /\ Len(HeadCommit(git')) = Len(PreHead) - 1
    /\ TreeOf(HeadCommit(git')) = TreeOf(PreHead)

\* C15: resuming with --squash or --fixup replaces B = parent(A) and
\* A = OrSquash.head by one commit on C = parent(B) (a root commit when B
\* is a root) with A's tree, B's author and B's message followed by A's
\* (Squash) or B's message alone (Fixup); when the resume is over the
\* branch has one commit fewer than before the operation and HEAD has the
\* tree it had before the operation.
C15_SquashReplaces ==
    [][/\ Squashes => SquashedCommit
       /\ SquashDone => OneFewer]_vars

\* the same, with the outcome for the branch asserted in every mode but a
\* plain --up, where the commits above the pair are not picked back
SquashUnlessPlainUp ==
    [][/\ Squashes => SquashedCommit
       /\ (SquashDone /\ ~(ghost.args.up /\ ~ghost.args.keep_going)) => OneFewer]_vars

\* a --squash of the two lowest commits has completed: HEAD's history ends
\* in commits picked back onto a root commit that carries both messages
SquashedRoot ==
    /\ Exited /\ proc.throw = "Squash" /\ proc.code = 0
    /\ Len(HeadCommit(git)) = Len(PreHead) - 1
    /\ Len(HeadCommit(git)) >= 2
    /\ Len(HeadCommit(git)[1].m) = 2
    /\ TreeOf(HeadCommit(git)) = TreeOf(PreHead)
\* a --fixup has completed on a branch that is one commit shorter
FixedUp ==
    /\ Exited /\ proc.throw = "Fixup" /\ proc.code = 0
    /\ git.HEAD = SymHead(Master)
    /\ Len(HeadCommit(git)) = Len(PreHead) - 1
    /\ Msgs(HeadCommit(git)) \in {Without(Msgs(PreHead), m) : m \in Range(Msgs(PreHead))}

\* a resume signal is on its way up
Signal == IF Running /\ proc.ctl.op = "exc" /\ proc.ctl.arg \in ResumeKinds
          THEN proc.ctl.arg ELSE ""
\* what the failure tail of a scope waiting at its yield does to the
\* repository when a signal passes through it
FailureTail(g, f) ==
    IF f.ph # "body" THEN g
    ELSE CASE f.kind = "EditBranch" -> force_checkout(g, f.h)
           [] f.kind = "CherryPickContinue" -> cherry_pick_abort(g)
           [] f.kind = "DeleteTempBranch" -> DeleteTempBranchFinally(g, f)
           [] f.kind = "SwapCheckpoint" -> force_checkout(g, ShaHead(f.x))
           [] OTHER -> g
Waiting(f, kinds) == f.kind \in kinds /\ f.ph = "body"
\* the signal leaves the scope on top as it came, after the failure tail
PassesOn ==
    /\ proc'.stack = Below /\ proc'.ctl = proc.ctl
    /\ git' = FailureTail(git, Top)

\* C16: a Squash or Fixup rises until the nearest OrSquash, which squashes
\* and raises Stop; a Stop rises until the nearest KeepGoing or CatchStop,
\* which returns normally without a further swap; every scope a signal
\* passes on its way runs its failure tail (KeepGoingUp picks its cherry
\* back); a signal no scope consumes ends the run as an error.
C16_SignalsTravelUp ==
    [][/\ (Signal \in {"Squash", "Fixup"} /\ Top.kind # "Main")
            => IF Waiting(Top, {"OrSquash"})
               THEN /\ SquashOk(Top.x)
                    /\ SquashedCommit
                    /\ proc'.stack = Below /\ proc'.ctl = Exc("Stop")
               ELSE PassesOn
       /\ (Signal = "Stop" /\ Top.kind # "Main")
            => IF Waiting(Top, {"KeepGoing", "CatchStop"})
               THEN /\ proc'.stack = Below /\ proc'.ctl = Ret
                    /\ git' = git
               ELSE IF Waiting(Top, {"KeepGoingUp"}) /\ Top.cs # <<>>
               THEN /\ proc'.stack = Push(Below, KeepGoingUp(Top.edit, Tail(Top.cs)))
                    /\ git' = git_cherry_pick(git, Top.cs[1])
                    /\ proc'.ctl = IF cherry_pick_succeeds(git, Top.cs[1])
                                   THEN Exc("Stop") ELSE Exc("GitFailed")
               ELSE PassesOn
       /\ (Signal # "" /\ Top.kind = "Main")
            => proc'.pc = "idle" /\ proc'.code = 1 /\ git' = git]_vars

\* a --squash has been raised into a rebuilt stack, has passed
\* CherryPickContinue and SwapCheckpoint, was turned into Stop by OrSquash,
\* and the Stop has just been consumed by a KeepGoing: the run returns
C16_Witness ==
    /\ Running /\ proc.resumed /\ proc.throw = "Squash" /\ proc.ctl = Ret
    /\ ghost.log # <<>> /\ ghost.log[Len(ghost.log)].what = "squash"
    /\ \E i \in 1..Len(ghost.file.continuations) :
          /\ ghost.file.continuations[i].kind = "KeepGoing"
          /\ Len(proc.stack) = i
    /\ Top.kind = "PickCherries" /\ Top.ph = "body" /\ Top.cs # <<>>

\* the exception with which a run is about to end at the driver
Ending == IF Running /\ Top.kind = "Main" /\ proc.ctl.op = "exc" THEN proc.ctl.arg ELSE ""

\* an invocation ends in this step
Ends == proc'.pc = "idle" /\ (Running \/ proc' # proc)
\* how it ends: the work returned ("completed"), the exception that reached
\* the driver, a refusal before any work (UserError), a status report, a
\* command line turned down ("usage")
Outcome ==
    IF Running THEN (IF proc.ctl.op = "ret" THEN "completed" ELSE proc.ctl.arg)
    ELSE IF proc'.out = "usage" THEN "usage"
    ELSE IF proc'.out \in {"", "UserError"} THEN "UserError"
    ELSE "completed"

\* C17: an invocation exits 0 exactly when it completes or is aborted, 1
\* exactly when it ends with UserError or SwapFailed, 2 exactly when it
\* suspends or the command line is turned down.
C17_ExitCodes ==
    [][Ends => /\ proc'.code \in {0, 1, 2}
               /\ proc'.code = 0 <=> Outcome \in {"completed", "Abort"}
               /\ proc'.code = 1 <=> Outcome \in {"UserError", "SwapFailed"}
               /\ proc'.code = 2 <=> Outcome \in {"Suspend", "usage"}]_vars

\* the codes as the drivers give them: 1 also for every other exception
\* that reaches the driver, and for git edit without a commit
ExitCodesAsCoded ==
    [][Ends => /\ proc'.code \in {0, 1, 2}
               /\ proc'.code = 0 <=> Outcome \in {"completed", "Abort"}
               /\ proc'.code = 2 <=> \/ Outcome = "Suspend"
                                     \/ Outcome = "usage" /\ proc'.code # 1
               /\ (Outcome = "usage" /\ proc'.code = 1) => proc'.tool = "git-edit"
               /\ (proc'.code = 2 /\ Outcome = "Suspend") <=> (file'.exists /\ ~file.exists)]_vars

\* git edit without a commit has printed its usage and exited 1 while an
\* operation is suspended
UsageExitsOne ==
    /\ proc.pc = "idle" /\ proc.out = "usage" /\ proc.code = 1 /\ proc.tool = "git-edit"
    /\ file.exists
\* an exception that is neither UserError nor SwapFailed has ended a run
\* with exit code 1
CrashExitsOne ==
    /\ Running /\ Ending = "GitFailed" /\ proc.resumed /\ proc.tool = "git-swap"

\* a status query ends in this step
Reports == proc.pc = "idle" /\ proc'.pc = "idle" /\ proc' # proc
           /\ proc'.out \notin {"", "usage"}

\* C18: --status can be asked of either tool whenever no tool is running.
\* It prints "no operation in progress" when there is no file, the status
\* stored in the file when the file is the tool's own ("unknown" when the
\* file stores none), and ends with UserError, exit 1, when the file is
\* another tool's; it builds no continuation and leaves the file and the
\* repository as they are.
C18_StatusReadOnly ==
    /\ [][Reports =>
            /\ file' = file /\ git' = git /\ conflicts' = conflicts
            /\ proc'.stack = <<>>
            /\ ~file.exists
                 => proc'.out = "no operation in progress" /\ proc'.code = 0
            /\ (file.exists /\ file.tool = proc'.tool)
                 => /\ proc'.out = IF file.status = "" THEN "unknown" ELSE file.status
                    /\ proc'.code = 0
            /\ (file.exists /\ file.tool # proc'.tool)
                 => proc'.out = "UserError" /\ proc'.code = 1]_vars
    /\ [](proc.pc = "idle" => \A tool \in Tools : ENABLED Status(tool))

\* git swap --status has printed the status stored by a suspended swap
C18_Witness ==
    /\ proc.pc = "idle" /\ proc.tool = "git-swap" /\ proc.code = 0
    /\ file.exists /\ file.tool = "git-swap"
    /\ file.status # "" /\ proc.out = file.status
    /\ cherry_pick_in_progress(git)
\* git swap --status has been turned down: the file is git-edit's
C18_WitnessOther ==
    /\ proc.pc = "idle" /\ proc.tool = "git-swap" /\ proc.code = 1 /\ proc.out = "UserError"
    /\ file.exists /\ file.tool = "git-edit"
\* --status after the operation has completed: nothing in progress
C18_WitnessNone ==
    /\ proc.pc = "idle" /\ proc.out = "no operation in progress" /\ proc.code = 0
    /\ ~file.exists /\ ghost.nops > 0 /\ ~ghost.active
\* git edit --status on the file of a fresh git edit, which stores no status
C18_WitnessUnknown ==
    /\ proc.pc = "idle" /\ proc.tool = "git-edit" /\ proc.out = "unknown" /\ proc.code = 0
    /\ file.exists /\ file.tool = "git-edit"

TempNames == {TempName(n) : n \in 0..2}
TempIndex(b) == CHOOSE n \in 0..2 : TempName(n) = b
\* the branches that existed when the operation began
PreExisting == branches(ghost.pre)
\* TempBranch checks out its orphan branch in this step
EntersTemp ==
    /\ Running /\ git'.HEAD.ref \in TempNames /\ git.HEAD.ref # git'.HEAD.ref
    /\ on_orphan_branch(git')

\* C19: the branch TempBranch checks out is temp-N for the smallest N that
\* names no branch, N being at most the number of branches; the tools
\* delete no branch that existed when the operation began, move none but
\* the one the operation was started on, and check out no other; and when
\* the operation has ended other than by suspending, the branches are
\* those that existed before and HEAD is detached or on one of them.
C19_TempBranches ==
    [][/\ EntersTemp
            => LET n == TempIndex(git'.HEAD.ref)
               IN /\ \A k \in 0..(n - 1) : branch_exists(git, TempName(k))
                  /\ ~branch_exists(git, TempName(n))
                  /\ n <= Cardinality(branches(git))
                  /\ git'.HEAD.ref \notin PreExisting
       /\ Running
            => /\ \A b \in PreExisting :
                     /\ branch_exists(git', b)
                     /\ b # ghost.pre.HEAD.ref => git'.branches[b] = ghost.pre.branches[b]
               /\ git'.HEAD.ref \in PreExisting => git'.HEAD.ref = ghost.pre.HEAD.ref
       /\ (Exits /\ proc'.code # 2)
            => /\ branches(git') = PreExisting
               /\ git'.HEAD.ref # "" => git'.HEAD.ref \in PreExisting]_vars

\* a swap of the two lowest commits, in a repository that has a branch
\* temp-0, was suspended on temp-1 and has completed: temp-0 is where it
\* was and temp-1 is gone
C19_Witness ==
    /\ Exited /\ proc.resumed /\ proc.code = 0
    /\ branch_exists(ghost.pre, TempName(0))
    /\ \E i \in 1..Len(ghost.file.continuations) :
          /\ ghost.file.continuations[i].kind = "DeleteTempBranch"
          /\ ghost.file.continuations[i].br = TempName(1)
    /\ git.branches[TempName(0)] = ghost.pre.branches[TempName(0)]
    /\ branches(git) = {Master, TempName(0)}
    /\ git.HEAD = SymHead(Master)
    /\ IsRoot(SubSeq(HeadCommit(git), 1, 1)) /\ HeadCommit(git)[1].m # <<1>>
\* the same operation ended by --abort
C19_WitnessAbort ==
    /\ Exited /\ proc.throw = "Abort" /\ proc.code = 0
    /\ branch_exists(ghost.pre, TempName(0))
    /\ \E i \in 1..Len(ghost.file.continuations) :
          ghost.file.continuations[i].kind = "DeleteTempBranch"
    /\ branches(git) = {Master, TempName(0)}

\* a resumed run suspends again in this step
Resuspends == Suspends /\ proc.resumed

\* C20: when a resumed operation suspends again, the status in the file it
\* writes is the status the new Suspend carries, if it carries one, and
\* otherwise the status of the file the resume began with.
C20_StatusPreserved ==
    [][Resuspends
          => file'.status = IF proc.susp.status # NoStatus THEN proc.susp.status
                            ELSE ghost.file.status]_vars

\* what the code does: the file has the status of the new Suspend and
\* nothing else; git-edit's CherryPickContinue always supplies one, while
\* git-swap's supplies none unless the Suspend comes out of a new swap
StatusOfRaiserOnly ==
    [][Resuspends
          => /\ file'.status = proc.susp.status
             /\ proc.tool = "git-edit" => proc.susp.status = "cherry-picking"
             /\ (proc.tool = "git-swap" /\ proc.susp.status # NoStatus)
                   => proc.susp.status = "swapping" /\ Swapped]_vars

\* git swap --continue has suspended again on the unresolved conflict and
\* the file no longer has the status it had
StatusDropped ==
    /\ Exited /\ proc.resumed /\ proc.code = 2 /\ proc.tool = "git-swap"
    /\ ghost.file.status = "swapping" /\ file.status = NoStatus
    /\ file.continuations = ghost.file.continuations
\* git edit --continue has suspended again with the status of its raiser
StatusSupplied ==
    /\ Exited /\ proc.resumed /\ proc.code = 2 /\ proc.tool = "git-edit"
    /\ file.status = "cherry-picking"

\* the file the running resume has loaded names an unregistered kind
Foreign == \E r \in Range(ghost.file.continuations) : r.kind \notin ContinuationKinds
\* the resume driver is about to construct a record of unregistered kind
LoadsUnknown ==
    /\ Running /\ proc.ctl.op = "reanimate" /\ proc.ctl.cs # <<>>
    /\ Head(proc.ctl.cs).kind \notin ContinuationKinds

\* C21: loading a continuation.json that has a record whose kind is not in
\* the registry fails with UserError: the lookup raises UserError and the
\* invocation ends with UserError and exit code 1.
C21_UnknownKindUserError ==
    [][/\ LoadsUnknown => proc'.ctl = Exc("UserError")
       /\ (Ends /\ Running /\ proc.resumed /\ Foreign)
            => Outcome = "UserError" /\ proc'.code = 1]_vars

\* what the lookup does: it raises KeyError with the scopes built so far on
\* the stack and nothing changed; every resume of such a file, whatever its
\* instruction, ends with KeyError as an uncaught exception, exit code 1
\* and no file
UnknownKindCrashes ==
    [][/\ LoadsUnknown => /\ proc'.ctl = Exc("KeyError")
                          /\ proc'.stack = proc.stack /\ git' = git
       /\ (Ends /\ Running /\ proc.resumed /\ Foreign)
            => /\ Outcome = "KeyError" /\ proc'.code = 1
               /\ ~file'.exists]_vars

\* an --abort of a file with an unknown kind has ended with exit code 1
UnknownKindAborted ==
    /\ Exited /\ proc.resumed /\ proc.throw = "Abort" /\ proc.code = 1
    /\ Foreign /\ ~file.exists
\* a --continue of a file whose outermost record is unknown has ended with
\* the cherry-pick still paused and no file
UnknownKindStranded ==
    /\ Exited /\ proc.resumed /\ proc.throw = "" /\ proc.code = 1
    /\ ghost.file.continuations[1].kind \notin ContinuationKinds
    /\ ~file.exists /\ cherry_pick_in_progress(git)

\* an operation is suspended and no tool runs
Suspended == proc.pc = "idle" /\ file.exists
\* the tool that owns the file has a command line that rebuilds the stack
\* and injects the instruction t ("" for --continue)
Offers(t) == ENABLED (/\ SwapResume \/ EditResume
                      /\ proc'.tool = file.tool /\ proc'.throw = t)
\* the owning tool's --status answers
OffersStatus == ENABLED (StatusQuery /\ proc'.tool = file.tool /\ proc'.code = 0)

\* C22: in every suspended state the tool that wrote continuation.json
\* offers --status, --continue and --abort.
C22_SuspendedOffersAll ==
    Suspended => OffersStatus /\ Offers("") /\ Offers("Abort")

\* what the tools offer: git-swap all three (and --stop, --squash,
\* --fixup); git-edit --status and --continue only, its parser turns
\* --abort down with exit code 2 and nothing changed
OffersAsCoded ==
    Suspended => /\ OffersStatus /\ Offers("")
                 /\ Offers("Abort") <=> file.tool = "git-swap"
                 /\ file.tool = "git-edit" =>
                       ENABLED (UsageError /\ proc'.tool = "git-edit" /\ proc'.code = 2)

\* git-edit has left a suspended operation with commits set aside
EditSuspended ==
    /\ Suspended /\ file.tool = "git-edit" /\ proc.code = 2
    /\ \E r \in Range(file.continuations) : r.kind = "PickCherries" /\ r.cs # <<>>

\* C23: from the raise of a Suspend to the exit of the process no scope runs
\* a tail: every step leaves the repository and the record of the work done
\* as they were at the suspension point, the Suspend stays a Suspend while
\* it leaves one scope after the other, and the process ends with exit
\* code 2 and the repository of the suspension point.
C23_SuspendRunsNoTail ==
    [][SuspendRises
          => /\ git' = git
             /\ ghost'.log = ghost.log
             /\ IF Top.kind = "Main"
                THEN proc'.pc = "idle" /\ proc'.code = 2
                ELSE /\ SuspendRises' /\ proc'.stack = Below
                     /\ proc'.susp.ks \in {proc.susp.ks, Append(proc.susp.ks, Top)}]_vars

\* a Suspend raised in the swap of a root commit has left DeleteTempBranch,
\* SwapCheckpoint and the scopes around them and is at EditBranch: the
\* cherry-pick is still paused on the temporary branch and the original
\* branch is where it was
C23_Witness ==
    /\ SuspendRises /\ Top.kind = "EditBranch"
    /\ {"DeleteTempBranch", "SwapCheckpoint", "CherryPickContinue"}
          \subseteq {f.kind : f \in Range(proc.susp.ks)}
    /\ on_orphan_branch(git) /\ cherry_pick_in_progress(git)
    /\ git.branches[Master] = ghost.pre.branches[Master]
\* a Suspend raised by a tail (PickCherries picking the commits set aside
\* by git-edit) is on its way up past scopes that wait at their yield
C23_WitnessTail ==
    /\ SuspendRises /\ proc.tool = "git-edit" /\ Top.kind = "EditBranch"
    /\ \E f \in Range(proc.susp.ks) : f.kind = "PickCherries" /\ f.ph = "tail"
    /\ cherry_pick_in_progress(git)

\* a scope is left in this step, by return or by an exception that is not
\* a Suspend
Unwinds == Running /\ proc.ctl.op \in {"ret", "exc"} /\ ~SuspendRises /\ Top.kind # "Main"
\* record i of the file the run was resumed from still waits at its yield,
\* at its place in the stack
Waits(p, i) ==
    /\ p.pc = "run" /\ p.resumed /\ i + 1 <= Len(p.stack)
    /\ p.stack[i + 1] = FromJson(ghost.file.continuations[i])
\* the scopes with a release-on-failure tail
FailureKinds == {"EditBranch", "CherryPickContinue", "DeleteTempBranch", "SwapCheckpoint"}

\* C24: scopes release in strict LIFO order.  A step that leaves a scope
\* leaves the innermost one and touches no scope around it; a scope whose
\* tail has begun never begins a tail again (an exception raised by its
\* own tail leaves it without a second release); a scope with a failure
\* tail that an exception reaches at its yield runs that tail and passes
\* the same exception to the scope around it.  After a resume the records
\* of the file all wait when the innermost point is reached, a record
\* stops waiting only as the innermost scope of the stack, and while a
\* record waits all records around it wait: the tails run in the order of
\* the nesting that was suspended.
C24_StrictLIFO ==
    [][/\ Unwinds
            => /\ proc'.pc = "run"
               /\ Len(proc'.stack) >= Len(Below)
               /\ SubSeq(proc'.stack, 1, Len(Below)) = Below
               /\ (Top.ph = "tail" /\ Len(proc'.stack) >= Len(proc.stack))
                    => /\ proc'.stack[Len(proc.stack)].kind = Top.kind
                       /\ proc'.stack[Len(proc.stack)].ph = "tail"
               /\ (Top.ph = "tail" /\ proc.ctl.op = "exc")
                    => proc'.stack = Below /\ proc'.ctl = proc.ctl /\ git' = git
               /\ (proc.ctl.op = "exc" /\ Waiting(Top, FailureKinds)) => PassesOn
       /\ (Running /\ proc.resumed /\ proc.ctl.op = "reanimate" /\ proc.ctl.cs = <<>>)
            => \A i \in 1..Len(ghost.file.continuations) : Waits(proc, i)
       /\ \A i \in 1..Len(ghost.file.continuations) :
            /\ (Waits(proc, i) /\ ~Waits(proc', i)) => Len(proc.stack) = i + 1
            /\ Waits(proc, i) => \A j \in 1..i : Waits(proc, j)]_vars

\* an Abort raised into a rebuilt nesting of seven or more scopes has run
\* the failure tails of all but the two outermost, which still wait
C24_Witness ==
    /\ Running /\ proc.resumed /\ proc.ctl = Exc("Abort")
    /\ Len(ghost.file.continuations) >= 7 /\ Len(proc.stack) = 3
    /\ Waits(proc, 1) /\ Waits(proc, 2)
    /\ ~cherry_pick_in_progress(git) /\ ghost.at.CHERRY_PICK_HEAD # NoCommit
\* a resumed run returns through the nesting: the innermost scopes have run
\* their success tails and the two outermost still wait
C24_WitnessSuccess ==
    /\ Running /\ proc.resumed /\ proc.ctl = Ret /\ proc.throw = ""
    /\ Len(ghost.file.continuations) >= 5 /\ Len(proc.stack) = 3
    /\ Waits(proc, 1) /\ Waits(proc, 2)
    /\ Len(ghost.log) > ghost.mark

\* an --abort is under way: the stack has been rebuilt and the Abort raised
Aborting == Running /\ proc.resumed /\ proc.throw = "Abort" /\ proc.ctl.op # "reanimate"

\* C25: an Abort raised at the innermost point of a rebuilt stack stays an
\* Abort until it reaches the driver: each scope it meets is left with its
\* failure tail run (none for OrSquash, KeepGoing, KeepGoingUp, CatchStop,
\* PickCherries and PickCherryWithReference) and the Abort passed on; no
\* commit is picked, squashed or recorded and no branch other than a
\* temporary one is moved; the driver ends the run with exit code 0.
C25_AbortNeverAbsorbed ==
    [][Aborting
          => /\ proc.ctl = Exc("Abort")
             /\ Top.ph = "body"
             /\ git' = FailureTail(git, Top)
             /\ ghost'.log = ghost.log
             /\ \A b \in BranchNames \ TempNames : git'.branches[b] = git.branches[b]
             /\ IF Top.kind = "Main"
                THEN proc'.pc = "idle" /\ proc'.code = 0
                ELSE proc'.stack = Below /\ proc'.ctl = Exc("Abort")]_vars

\* an Abort is passing a KeepGoingUp that has cherries left to pick, having
\* left an OrSquash and a CherryPickContinue inside it
C25_Witness ==
    /\ Aborting /\ Top.kind = "KeepGoingUp" /\ Top.cs # <<>>
    /\ \E i \in 1..Len(ghost.file.continuations) :
          ghost.file.continuations[i].kind = "OrSquash" /\ i + 1 > Len(proc.stack)
\* an Abort is passing a KeepGoing, a CatchStop, a PickCherries with
\* commits set aside
C25_WitnessKeepGoing == Aborting /\ Top.kind = "KeepGoing"
C25_WitnessCatchStop == Aborting /\ Top.kind = "CatchStop"
C25_WitnessPickCherries == Aborting /\ Top.kind = "PickCherries" /\ Top.cs # <<>>

\* in a list of records (outermost first) there is an OrSquash, and every
\* OrSquash has a KeepGoing or a CatchStop outside it
HasCatcher(ks) ==
    /\ \E j \in 1..Len(ks) : ks[j].kind = "OrSquash"
    /\ \A j \in 1..Len(ks) :
          ks[j].kind = "OrSquash"
             => \E i \in 1..(j - 1) : ks[i].kind \in {"KeepGoing", "CatchStop"}

\* C26: every continuation.json git-swap writes, in every mode and after
\* any number of resumes, has an OrSquash with a KeepGoing or CatchStop
\* outside it; no run of git-swap ends with a Stop, Squash or Fixup at
\* the driver (the internal error of an uncaught Resume), and a resume
\* signal in flight always has a scope below it that will consume it.
C26_SignalsAlwaysConsumed ==
    [][/\ (file'.exists /\ file'.tool = "git-swap") => HasCatcher(file'.continuations)
       /\ (Ends /\ Running /\ proc.tool = "git-swap")
            => Outcome \notin ResumeKinds \cup {"InternalError"}
       /\ Signal \in {"Squash", "Fixup"}
            => \E f \in Range(proc.stack) : Waiting(f, {"OrSquash"})
       /\ Signal # ""
            => \E f \in Range(proc.stack) : Waiting(f, {"KeepGoing", "CatchStop"})]_vars

\* a --squash has ended with exit code 0 an --up --keep-going swap that
\* had suspended twice
C26_Witness ==
    /\ Exited /\ proc.tool = "git-swap" /\ proc.throw = "Squash" /\ proc.code = 0
    /\ ghost.args.up /\ ghost.args.keep_going /\ ghost.suspends >= 2
    /\ HasCatcher(ghost.file.continuations)
\* a swap of each mode is suspended
C26_WitnessPlain ==
    /\ Suspended /\ file.tool = "git-swap" /\ ~ghost.args.up /\ ~ghost.args.keep_going
    /\ ghost.args.commit # NoCommit
C26_WitnessDown == Suspended /\ file.tool = "git-swap" /\ ~ghost.args.up /\ ghost.args.keep_going
C26_WitnessUp == Suspended /\ file.tool = "git-swap" /\ ghost.args.up /\ ~ghost.args.keep_going
\* a --stop has ended a plain swap with exit code 0
C26_WitnessStop ==
    /\ Exited /\ proc.tool = "git-swap" /\ proc.throw = "Stop" /\ proc.code = 0
    /\ ~ghost.args.up /\ ~ghost.args.keep_going

(***************************************************************************)
(* C27: the original branch during an operation                             *)
(***************************************************************************)
\* the kinds of the scopes of the operation, wherever they are: on the
\* stack, still to be rebuilt, captured by a Suspend on its way up, or in
\* the file
ScopeKinds ==
    {proc.stack[i].kind : i \in 1..Len(proc.stack)}
        \cup (IF proc.ctl.op = "reanimate"
              THEN {proc.ctl.cs[i].kind : i \in 1..Len(proc.ctl.cs)} ELSE {})
        \cup {proc.susp.ks[i].kind : i \in 1..Len(proc.susp.ks)}
        \cup {file.continuations[i].kind : i \in 1..Len(file.continuations)}

\* the operation is inside EditBranch: running or suspended
InEditBranch == ghost.active /\ "EditBranch" \in ScopeKinds

\* EditBranch's success tail is what runs, on the recorded branch b
SuccessTailWrites(b) ==
    /\ AtRet("EditBranch") /\ branch(Top) = b
    /\ Len(proc.stack) = 2
    /\ proc'.stack = <<Frame("Main")>> /\ proc'.ctl = Ret
    /\ git'.branches[b] = HeadCommit(git)

BranchKept ==
    InEditBranch => \A b \in PreExisting : git.branches[b] = ghost.pre.branches[b]

BranchWrittenByTail ==
    \A b \in PreExisting :
        git'.branches[b] # git.branches[b] =>
            /\ SuccessTailWrites(b)
            /\ git.branches[b] = ghost.pre.branches[b]
            /\ b = ghost.pre.HEAD.ref

\* C27 as stated: while an operation wrapped in EditBranch is running or
\* suspended, the original branch ref keeps pointing at its pre-operation
\* commit and HEAD is detached; the branch ref is written only by
\* EditBranch's success tail, at most once per operation, and only after
\* every inner scope has completed normally.
C27_BranchUntouchedDetached ==
    /\ [](InEditBranch => git.HEAD.ref = "")
    /\ []BranchKept
    /\ [][BranchWrittenByTail]_vars

\* C27, amended: the same, except that HEAD is detached or on a temporary
\* branch the operation itself created (the swap of a root commit builds
\* the new history on an orphan temp-N); it is never on a branch that
\* existed before.
C27_BranchUntouched ==
    /\ [](InEditBranch => git.HEAD.ref = "" \/
                           (git.HEAD.ref \in TempNames /\ git.HEAD.ref \notin PreExisting))
    /\ []BranchKept
    /\ [][BranchWrittenByTail]_vars

\* the success tail has moved the branch of a finished swap to new history
C27_Witness ==
    /\ Exited /\ proc.code = 0 /\ ~ghost.active /\ ghost.nops = 1
    /\ ghost.pre.HEAD.ref = Master
    /\ git.HEAD.ref = Master
    /\ git.branches[Master] # ghost.pre.branches[Master]

\* suspended on a temporary branch, the original branch where it was
C27_WitnessTemp ==
    /\ proc.pc = "idle" /\ file.exists /\ InEditBranch
    /\ git.HEAD.ref \in TempNames
    /\ HeadCommit(git) # NoCommit
    /\ git.branches[Master] = ghost.pre.branches[Master]

(***************************************************************************)
(* C28: the release of EditBranch                                           *)
(***************************************************************************)
\* the scope is popped and the control goes on as it was
Released == proc'.stack = Below /\ proc'.ctl = proc.ctl

\* success with a recorded branch: the branch is moved to the commit HEAD
\* was at and checked out; no other branch changes
ReleasedOnBranch ==
    LET b == branch(Top)
    IN /\ git'.branches[b] = HeadCommit(git)
       /\ git'.HEAD = SymHead(b)
       /\ HeadCommit(git') = HeadCommit(git)
       /\ \A c \in BranchNames \ {b} : git'.branches[c] = git.branches[c]

\* success with a recorded sha: nothing is moved
ReleasedDetached ==
    /\ git'.branches = git.branches
    /\ git'.HEAD = git.HEAD

\* failure: the recorded branch or sha is force-checked-out, no ref moves
ReleasedOnFailure ==
    /\ git'.HEAD = Top.h
    /\ git'.branches = git.branches
    /\ git'.index = TreeOf(Resolve(git, Top.h))
    /\ ~git'.unmerged /\ ~cherry_pick_in_progress(git')

\* C28: EditBranch release: on success, if the recorded head is a branch,
\* that branch ref is moved to the current HEAD commit and the branch is
\* checked out (if the recorded head was a detached sha, no ref is moved and
\* HEAD stays at the new commit); on a regular error or any Resume signal,
\* the original branch (or sha) is force-checked-out and the exception is
\* re-raised.
C28_EditBranchRelease ==
    [][/\ AtRet("EditBranch") =>
            /\ Released
            /\ IF branch(Top) # "" THEN ReleasedOnBranch ELSE ReleasedDetached
       /\ (AtExc("EditBranch") /\ Raised \in ErrorKinds \cup ResumeKinds) =>
            /\ Released
            /\ ReleasedOnFailure]_vars

\* a finished operation whose success tail moved the branch and checked it out
C28_Witness ==
    /\ Exited /\ proc.code = 0 /\ ~ghost.active /\ ghost.nops = 1
    /\ ghost.pre.HEAD.ref = Master
    /\ git.HEAD = SymHead(Master)
    /\ git.branches[Master] # ghost.pre.branches[Master]
    /\ Count("usercommit") = 0

\* a finished operation that began on a detached HEAD: HEAD at the new commit
C28_WitnessDetached ==
    /\ Exited /\ proc.code = 0 /\ ~ghost.active /\ ghost.nops = 1
    /\ ghost.pre.HEAD.ref = ""
    /\ git.HEAD.ref = "" /\ git.HEAD.sha # ghost.pre.HEAD.sha
    /\ git.branches = ghost.pre.branches

\* an error is at EditBranch while HEAD is away from the recorded branch
C28_WitnessFailure ==
    /\ AtExc("EditBranch") /\ Raised \in ErrorKinds
    /\ branch(Top) = Master
    /\ HeadCommit(git) # git.branches[Master]

\* the error has left EditBranch: back on the branch, the error at the driver
C28_WitnessRestored ==
    /\ Running /\ proc.ctl.op = "exc" /\ Top.kind = "Main" /\ Raised \in ErrorKinds
    /\ ghost.pre.HEAD.ref = Master /\ git.HEAD = SymHead(Master)
    /\ Len(ghost.log) > 0

(***************************************************************************)
(* C29: rehydration                                                         *)
(***************************************************************************)
Rehydrating == Running /\ proc.ctl.op = "reanimate"
\* the innermost point: every record has been rebuilt
Innermost == Rehydrating /\ proc.ctl.cs = <<>>

\* C29: rehydration is side-effect free: from the start of a resume to the
\* innermost point the repository is what the suspended operation (and the
\* user) left, nothing is logged, and each scope is built from its stored
\* attributes; a rebuilt EditBranch holds the head recorded when the
\* operation began, not the HEAD of the resume, and HEAD is not detached
\* again; no checkout, cherry-pick or temp-branch creation is repeated.
C29_RehydrationPure ==
    [][/\ BeginsResume => git' = git /\ ghost'.log = ghost.log
       /\ Rehydrating =>
            /\ git' = git /\ git = ghost.at
            /\ ghost'.log = ghost.log /\ Len(ghost.log) = ghost.mark
            /\ file' = file /\ ~file.exists
            /\ \A f \in Range(proc.stack) :
                  f.kind = "EditBranch" => f.h = ghost.pre.HEAD
            /\ (proc.ctl.cs # <<>> /\ Head(proc.ctl.cs).kind \in ContinuationKinds) =>
                  /\ proc'.stack = Push(proc.stack, FromJson(Head(proc.ctl.cs)))
                  /\ Attrs(proc'.stack[Len(proc'.stack)]) = Attrs(Head(proc.ctl.cs))
                  /\ proc'.stack[Len(proc'.stack)].ph = "body"]_vars

\* a swap of a root commit, suspended on its temporary branch with the
\* cherry-pick in progress, has been rebuilt: EditBranch holds master, HEAD
\* is still on the temporary branch, the repository is as it was left
C29_Witness ==
    /\ Innermost
    /\ \E f \in Range(proc.stack) : f.kind = "EditBranch" /\ f.h = SymHead(Master)
    /\ \E f \in Range(proc.stack) : f.kind = "DeleteTempBranch" /\ git.HEAD = SymHead(f.br)
    /\ cherry_pick_in_progress(git)
    /\ git = ghost.at

\* a git-edit has been rebuilt after the user amended the commit: HEAD is
\* detached at the user's commit, EditBranch holds master
C29_WitnessEdit ==
    /\ Innermost /\ proc.tool = "git-edit"
    /\ proc.stack[2] = EditBranch(SymHead(Master))
    /\ git.HEAD.ref = "" /\ U \in TreeOf(git.HEAD.sha)

(***************************************************************************)
(* C30: cherry_pick                                                         *)
(***************************************************************************)
\* the next step is a call of cherry_pick: the one of swap, or one turn of
\* the loop of PickCherries
PicksInSwap == Running /\ proc.ctl.op = "body" /\ proc.ctl.arg = "cherry_pick"
PicksInLoop == Running /\ proc.ctl.op = "ret" /\ Top.kind = "PickCherries"
               /\ Remaining(Top, proc.tool) # <<>>
Picking == PicksInSwap \/ PicksInLoop
PickRef == IF PicksInSwap THEN proc.ctl.x ELSE Remaining(Top, proc.tool)[1]
PickEdit == IF PicksInSwap THEN proc.ctl.edit ELSE Top.edit
\* the scopes around the call
PickStack == IF PicksInSwap THEN proc.stack ELSE Push(Below, Consumed(Top, proc.tool))

\* the last thing the running invocation did was a cherry_pick that stopped
\* on a conflict
PickConflicted ==
    /\ Len(ghost.log) > ghost.mark
    /\ ghost.log[Len(ghost.log)].what = "conflict"

PickSuspends ==
    /\ proc'.ctl = Exc("Suspend") /\ proc'.susp.ks = <<>>
    /\ proc'.stack = Push(PickStack, PickContinue(proc.tool, PickRef))
    /\ cherry_pick_in_progress(git') /\ git'.CHERRY_PICK_HEAD = PickRef
    /\ git' = git_cherry_pick(git, PickRef)

PickFails ==
    /\ proc'.ctl = Exc("GitFailed")
    /\ proc'.stack = PickStack
    /\ ~cherry_pick_in_progress(git') /\ ~has_unmerged_files(git')
    /\ HeadCommit(git') = HeadCommit(git)

PickSucceeds ==
    /\ proc'.ctl = Ret /\ proc'.stack = PickStack
    /\ ~cherry_pick_in_progress(git')
    /\ Parent(HeadCommit(git')) = HeadCommit(git)
    /\ Last(HeadCommit(git')).m = Last(PickRef).m

\* C30: cherry_pick(ref, edit): if the VCS cherry-pick fails and edit is set
\* and a cherry-pick is in progress, a Suspend is raised whose captured
\* stack has a CherryPickContinue as its innermost (last persisted) element
\* and the cherry-pick is left in progress for the user; in every other
\* failure case the cherry-pick is aborted, the VCS failure propagates, and
\* no cherry-pick is in progress afterwards.  A successful cherry-pick never
\* suspends.
C30_CherryPick ==
    [][/\ Picking =>
            IF cherry_pick_succeeds(git, PickRef) THEN PickSucceeds
            ELSE IF PickEdit /\ cherry_pick_in_progress(git_cherry_pick(git, PickRef))
                 THEN PickSuspends
                 ELSE PickFails
       /\ (SuspendRises /\ PickConflicted) =>
            /\ cherry_pick_in_progress(git)
            /\ IF proc.susp.ks = <<>> THEN Top.kind = "CherryPickContinue"
               ELSE proc.susp.ks[1].kind = "CherryPickContinue"
            /\ Exits => /\ git' = git
                        /\ file'.continuations[Len(file'.continuations)].kind
                              = "CherryPickContinue"]_vars

\* a cherry_pick with edit has suspended: the file ends with
\* CherryPickContinue and the cherry-pick is in progress, unmerged
C30_Witness ==
    /\ proc.pc = "idle" /\ file.exists /\ PickConflicted /\ proc.code = 2
    /\ file.continuations[Len(file.continuations)].kind = "CherryPickContinue"
    /\ cherry_pick_in_progress(git) /\ has_unmerged_files(git)

\* the same from the loop of PickCherries of git-edit
C30_WitnessLoop ==
    /\ C30_Witness /\ file.tool = "git-edit"
    /\ Len(file.continuations) = 3

\* a cherry_pick without edit hit a conflict: aborted, the failure is raised
C30_WitnessAborted ==
    /\ Running /\ Raised = "GitFailed"
    /\ Len(ghost.log) > 0 /\ ghost.log[Len(ghost.log)].what = "failed"
    /\ ~cherry_pick_in_progress(git) /\ ~has_unmerged_files(git)

\* the same on the orphan branch of a root swap: the marker is removed and
\* the index emptied by hand
C30_WitnessAbortedOnOrphan ==
    /\ C30_WitnessAborted
    /\ on_orphan_branch(git) /\ git.index = {}

\* a cherry_pick succeeded
C30_WitnessPicked ==
    /\ Running /\ proc.ctl = Ret
    /\ Len(ghost.log) > 0 /\ ghost.log[Len(ghost.log)].what = "pick"

(***************************************************************************)
(* C31: a swap that fails after its checkpoint                              *)
(***************************************************************************)
\* the checkpoint has put HEAD back at the commit it recorded (one.sha):
\* detached there, its tree in the index, no cherry-pick left, no ref moved
BackAtOne(g, one) ==
    /\ g.HEAD = ShaHead(one)
    /\ g.index = TreeOf(one)
    /\ ~g.unmerged /\ ~cherry_pick_in_progress(g)
    /\ \A b \in PreExisting : g.branches[b] = ghost.pre.branches[b]

\* a git-swap without --keep-going ends at the driver with SwapFailed, after
\* a cherry-pick of the swap failed
FailsAfterCheckpoint ==
    /\ Running /\ proc.tool = "git-swap" /\ ~ghost.args.keep_going
    /\ Ending = "SwapFailed"
    /\ Len(ghost.log) > 0 /\ ghost.log[Len(ghost.log)].what = "failed"

\* C31: a swap that fails after SwapCheckpoint was entered (a conflict
\* without --edit, or a Resume signal, or any other error) has HEAD
\* force-checked-out at one.sha before the failure goes on to the scopes
\* outside; a git-swap without --keep-going that fails this way exits 1 with
\* the branch ref, HEAD and the commits as they were before the operation.
C31_CheckpointRestores ==
    [][/\ AtExc("SwapCheckpoint") =>
            /\ BackAtOne(git', Top.x)
            /\ proc'.stack = Below /\ proc'.ctl = proc.ctl
       /\ (FailsAfterCheckpoint /\ Exits) =>
            /\ proc'.code = 1
            /\ ~file'.exists
            /\ git' = git
            /\ Restored(git)
            /\ git.branches = ghost.pre.branches
            /\ ~proc.resumed => git = ghost.pre]_vars

\* a swap without --edit hit a conflict: the failure is at SwapCheckpoint,
\* HEAD is away from the recorded commit
C31_Witness ==
    /\ AtExc("SwapCheckpoint") /\ Raised = "SwapFailed"
    /\ HeadCommit(git) # Top.x

\* the same for a root swap: the temporary branch is gone already
C31_WitnessRoot ==
    /\ AtExc("SwapCheckpoint") /\ Raised = "SwapFailed"
    /\ IsRoot(Parent(Top.x))
    /\ branches(git) = PreExisting

\* a Resume signal is at SwapCheckpoint
C31_WitnessResume ==
    /\ AtExc("SwapCheckpoint") /\ Raised \in ResumeKinds
    /\ HeadCommit(git) # Top.x

\* the invocation has exited 1 with everything as before
C31_WitnessExited ==
    /\ Exited /\ proc.tool = "git-swap" /\ proc.code = 1 /\ ~ghost.args.keep_going
    /\ Len(ghost.log) > 0 /\ ghost.log[Len(ghost.log)].what = "failed"
    /\ ghost.args.commit # NoCommit
    /\ git = ghost.pre

(***************************************************************************)
(* C32: the checks of swap                                                  *)
(***************************************************************************)
\* swap is about to run, with HEAD = one
Swapping == Running /\ proc.ctl.op = "body" /\ proc.ctl.arg = "swap"
SwapTwo == Parent(HeadCommit(git))
\* one is a merge or a root, or two is a merge
NoUniqueChain ==
    \/ NParents(HeadCommit(git)) # 1
    \/ NParents(SwapTwo) > 1
\* swap raises SwapFailed and has done nothing else
FailsUntouched ==
    /\ proc'.ctl = Exc("SwapFailed")
    /\ proc'.stack = proc.stack
    /\ git' = git /\ file' = file /\ ghost' = ghost

\* C32: swap fails with SwapFailed before entering any scope or changing
\* any repository state whenever HEAD (one) does not have exactly one parent
\* (it is a merge or a root commit) or its parent (two) is a merge; a two
\* with no parent is not a failure and is handled through an orphan temp
\* branch.
C32_SwapChecks ==
    [][Swapping =>
        /\ NoUniqueChain => FailsUntouched
        /\ (~NoUniqueChain /\ SwapTwo \notin Range(proc.ctl.cs)) =>
              /\ proc'.ctl.op = "body" /\ proc'.ctl.arg = "cherry_pick"
              /\ proc'.ctl.x = HeadCommit(git)
              /\ Len(proc'.stack) > Len(proc.stack)
              /\ proc'.stack[Len(proc.stack) + 1] = SwapCheckpoint(HeadCommit(git))
              /\ IF IsRoot(SwapTwo)
                 THEN /\ on_orphan_branch(git') /\ git'.HEAD.ref \in TempNames
                      /\ git'.HEAD.ref \notin branches(git)
                      /\ git'.index = {}
                      /\ proc'.stack[Len(proc.stack) + 2]
                            = DeleteTempBranch(git'.HEAD.ref, head(git))
                 ELSE git'.HEAD = ShaHead(Parent(SwapTwo))]_vars

\* swap has failed on a root commit, nothing entered
C32_Witness ==
    /\ Running /\ Raised = "SwapFailed" /\ Top.kind = "OrSquash"
    /\ IsRoot(HeadCommit(git)) /\ Top.x = HeadCommit(git)

\* swap has failed because HEAD is a merge / because its parent is a merge
C32_WitnessMergeOne ==
    /\ Running /\ Raised = "SwapFailed" /\ Top.kind = "OrSquash"
    /\ IsMerge(HeadCommit(git)) /\ Top.x = HeadCommit(git)
C32_WitnessMergeTwo ==
    /\ Running /\ Raised = "SwapFailed" /\ Top.kind = "OrSquash"
    /\ ~IsMerge(HeadCommit(git)) /\ IsMerge(Parent(HeadCommit(git)))
    /\ Top.x = HeadCommit(git)

\* the parent of HEAD is the root: swap is on an orphan temporary branch
C32_WitnessOrphan ==
    /\ Running /\ proc.ctl.op = "body" /\ proc.ctl.arg = "cherry_pick"
    /\ on_orphan_branch(git) /\ IsRoot(Parent(proc.ctl.x))
    /\ Below[Len(Below)].kind = "PickCherryWithReference"

(***************************************************************************)
(* C33: KeepGoingUp                                                         *)
(***************************************************************************)
\* the operation is a swap --keep-going --up
UpKeepGoing == ghost.tool = "git-swap" /\ ghost.args.keep_going /\ ghost.args.up
\* the cherries c1..cn: the commits above the target, oldest first
Cherries == collect_cherries(ghost.args.commit, ghost.pre).cs
\* the ids a sequence of messages names, in order (a squashed commit names two)
RECURSIVE Flat(_)
Flat(ms) == IF ms = <<>> THEN <<>> ELSE Head(ms) \o Flat(Tail(ms))
CherryIds == Flat([i \in 1..Len(Cherries) |-> Last(Cherries[i]).m])
\* the cherries a branch holds, in the order in which it holds them
CherriesOf(c) == SelectSeq(Flat(Msgs(c)), LAMBDA id : id \in Range(CherryIds))
\* s with one element left out
OneLeftOut(s) == {SubSeq(s, 1, i - 1) \o SubSeq(s, i + 1, Len(s)) : i \in 1..Len(s)}

\* main enters KeepGoingUp over the cherries and checks the target out
EntersKeepGoingUp ==
    /\ Running /\ proc.tool = "git-swap" /\ proc.ctl.op = "body" /\ proc.ctl.arg = "main"
    /\ proc.args.up /\ proc.args.keep_going /\ proc.args.commit # NoCommit
    /\ collect_cherries(proc.args.commit, git).ok
    /\ collect_cherries(proc.args.commit, git).cs # <<>>

\* this step cherry-picks the commit ci on top of HEAD
PicksOnTop(ci) ==
    /\ Parent(HeadCommit(git')) = HeadCommit(git)
    /\ Last(HeadCommit(git')).m = Last(ci).m
    /\ ghost'.log = Append(ghost.log, Event("pick", ci))

\* C33: KeepGoingUp over cherries c1..cn (the commits above the target,
\* oldest first): the target is checked out first, then for i = 1..n in
\* order ci is cherry-picked and swapped with the target; if a swap fails
\* with SwapFailed, or a Stop arrives from inside (also on a rehydrated
\* stack), the remaining cherries are still cherry-picked in the original
\* order.  When the operation has ended (completed, or resumed to the end
\* with --continue, --stop, --squash or --fixup) each ci has been applied
\* once and in the original relative order.
C33_KeepGoingUp ==
    [][/\ EntersKeepGoingUp =>
            /\ git'.HEAD = ShaHead(proc.args.commit)
            /\ proc'.stack = Push(Push(proc.stack, CatchStop),
                                  KeepGoingUp(proc.args.edit, Cherries'))
            /\ Cherries' = [i \in 1..(Len(HeadCommit(git)) - Len(proc.args.commit)) |->
                               SubSeq(HeadCommit(git), 1, Len(proc.args.commit) + i)]
            /\ proc'.ctl = Ret
       /\ (AtRet("KeepGoingUp") /\ Top.cs # <<>>) =>
            /\ PicksOnTop(Top.cs[1])
            /\ proc'.ctl.arg = "swap_or_squash"
            /\ SubSeq(proc'.stack, 1, Len(proc.stack) + 1)
                  = Push(Push(Below, [Top EXCEPT !.ph = "tail"]),
                         KeepGoingUp(Top.edit, Tail(Top.cs)))
       /\ (AtExc("KGUTry") /\ Raised = "SwapFailed") =>
            /\ proc'.ctl = Exc("Stop") /\ proc'.stack = Below /\ git' = git
       /\ (AtExc("KeepGoingUp") /\ Raised = "Stop" /\ Top.cs # <<>>) =>
            /\ PicksOnTop(Top.cs[1])
            /\ proc'.ctl = Exc("Stop")
            /\ proc'.stack = Push(Below, KeepGoingUp(Top.edit, Tail(Top.cs)))
       /\ (Exits /\ UpKeepGoing /\ proc'.code = 0 /\ proc.throw # "Abort") =>
            /\ TreeOf(HeadCommit(git')) = TreeOf(PreHead)
            /\ IF proc.throw = "Fixup" /\ (\E i \in 1..Len(ghost.log) : ghost.log[i].what = "squash")
               THEN CherriesOf(HeadCommit(git')) \in OneLeftOut(CherryIds)
               ELSE CherriesOf(HeadCommit(git')) = CherryIds]_vars

\* a --keep-going --up over two cherries, suspended in the first swap and
\* resumed with --stop, has ended: both cherries are on the branch in order
C33_Witness ==
    /\ Exited /\ UpKeepGoing /\ proc.throw = "Stop" /\ proc.code = 0
    /\ Len(Cherries) >= 2
    /\ Pos(Msgs(HeadCommit(git)), Target) = Pos(Msgs(PreHead), Target)
    /\ CherriesOf(HeadCommit(git)) = CherryIds

\* the same without a suspension: the second swap failed, the target is one up
C33_WitnessSwapFailed ==
    /\ Exited /\ UpKeepGoing /\ proc.throw = "" /\ proc.code = 0 /\ ghost.suspends = 0
    /\ Len(Cherries) >= 2
    /\ Pos(Msgs(HeadCommit(git)), Target) = Pos(Msgs(PreHead), Target) + 1

\* the target has gone all the way up
C33_WitnessTop ==
    /\ Exited /\ UpKeepGoing /\ proc.code = 0 /\ Len(Cherries) >= 2
    /\ Last(HeadCommit(git)).m = Target

\* ended with --fixup: one cherry has gone into the target
C33_WitnessFixup ==
    /\ Exited /\ UpKeepGoing /\ proc.throw = "Fixup" /\ proc.code = 0
    /\ Len(Cherries) >= 2
    /\ Len(CherriesOf(HeadCommit(git))) = Len(Cherries) - 1

(***************************************************************************)
(* C34: swap --keep-going terminates                                        *)
(***************************************************************************)
\* the operation is a swap --keep-going (down or up)
KeepsGoing == ghost.active /\ ghost.tool = "git-swap" /\ ghost.args.keep_going
\* the swaps the operation has completed
SwapsDone == Count("reference")
\* the commits the target can pass: those below it, or above it with --up
Room ==
    LET p == Pos(Msgs(PreHead), Target)
    IN IF ghost.args.up THEN Len(PreHead) - p ELSE p - 1

\* C34: swap --keep-going always terminates: every invocation of the
\* operation suspends or finishes; the operation completes at most one swap
\* per commit below (with --up: above) the target; and the recursion stops
\* without error where a swap fails (the root, a merge, a baseline, a
\* conflict) and on Stop: neither SwapFailed nor Stop reaches the driver.
C34_KeepGoingTerminates ==
    /\ [](KeepsGoing /\ Running => <>(proc.pc = "idle"))
    /\ [](KeepsGoing => SwapsDone <= Room)
    /\ [](KeepsGoing => Ending \notin {"SwapFailed", "Stop", "MergeFound"})

\* a swap --keep-going has finished at the root after two swaps, without
\* suspending
C34_Witness ==
    /\ Exited /\ proc.tool = "git-swap" /\ proc.code = 0 /\ ghost.nops = 1
    /\ ghost.args.keep_going /\ ~ghost.args.up /\ ghost.suspends = 0
    /\ SwapsDone = 2 /\ Room = 2
    /\ Pos(Msgs(HeadCommit(git)), Target) = 1

\* KeepGoing is absorbing a SwapFailed raised by a conflict / a Stop
C34_WitnessConflict ==
    /\ AtExc("KeepGoing") /\ Raised = "SwapFailed"
    /\ Len(ghost.log) > 0 /\ ghost.log[Len(ghost.log)].what = "failed"
C34_WitnessStop == AtExc("KeepGoing") /\ Raised = "Stop"
\* KeepGoing is absorbing a SwapFailed raised at a baseline
C34_WitnessBaseline ==
    /\ AtExc("KeepGoing") /\ Raised = "SwapFailed"
    /\ Parent(HeadCommit(git)) = ghost.pre.baseline

\* KeepGoing is absorbing the SwapFailed of a swap tried on the root, after
\* the target got there
C34_WitnessRoot ==
    /\ AtExc("KeepGoing") /\ Raised = "SwapFailed"
    /\ IsRoot(HeadCommit(git)) /\ SwapsDone >= 1

\* the swap tool ends an operation here with exit 0, other than by --abort
SwapEnds(how) == Exits /\ proc.tool = "git-swap" /\ proc'.code = 0 /\ proc.throw \in how
\* the history HEAD ends on has n commits fewer than before the operation,
\* and names each commit of before once, or no commit twice when n > 0
Shorter(n) ==
    LET now == Flat(Msgs(HeadCommit(git')))
        was == Flat(Msgs(PreHead))
    IN /\ Len(HeadCommit(git')) = Len(PreHead) - n
       /\ Range(now) \subseteq Range(was)
       /\ Cardinality(Range(now)) = Len(now)
       /\ n = 0 => Range(now) = Range(was)

\* C35: every swap-tool operation that ends by normal completion,
\* --continue or --stop leaves the branch with exactly as many commits as
\* before, and one that ends by --squash or --fixup with exactly one commit
\* fewer; no commit is dropped or duplicated.
C35_LengthPreserved ==
    [][/\ SwapEnds({"", "Stop"}) => Shorter(0)
       /\ SquashDone => Shorter(1)]_vars

\* the same in every mode but a plain --up, where a resume signal leaves
\* the PickCherries of the commits set aside before CatchStop absorbs it
LengthUnlessPlainUp ==
    [][/\ (SwapEnds({""}) \/ (SwapEnds({"Stop"}) /\ ~(ghost.args.up /\ ~ghost.args.keep_going)))
          => Shorter(0)
       /\ (SquashDone /\ ~(ghost.args.up /\ ~ghost.args.keep_going)) => Shorter(1)]_vars

\* a plain --up swap was stopped and the branch has lost a commit
StoppedShort ==
    /\ Exited /\ proc.tool = "git-swap" /\ proc.throw = "Stop" /\ proc.code = 0
    /\ ghost.args.up /\ ~ghost.args.keep_going
    /\ Len(HeadCommit(git)) < Len(PreHead)
\* a swap resumed after a conflict completed with all its commits
ResumedWhole ==
    /\ Exited /\ proc.tool = "git-swap" /\ proc.resumed /\ proc.throw = "" /\ proc.code = 0
    /\ Len(HeadCommit(git)) = Len(PreHead) /\ Len(PreHead) = 3
    /\ Msgs(HeadCommit(git)) # Msgs(PreHead)

\* the Suspend on its way up captures the scope it leaves in this step
Captured == SuspendRises /\ proc'.susp.ks = Append(proc.susp.ks, Top)
\* the release-on-success tail of the scope on top has begun
TailBegun == Top.kind \in ContinuationKinds /\ Top.ph = "tail"
\* the commits cherry-picked or met with a conflict since the operation began
Attempted == {ghost.log[i].c : i \in {j \in 1..Len(ghost.log) :
                                      ghost.log[j].what \in {"pick", "conflict"}}}

\* C36 as stated: no continuation is captured into a Suspend after its
\* release tail has begun: for every instance exactly one of success tail,
\* failure tail and capture happens.
C36_ExactlyOneRelease ==
    [][Captured => ~TailBegun]_vars

\* C36: a scope leaves the stack in one way at a time; a scope that a
\* Suspend captures waits at its yield, or, in the engine of git-edit, is
\* one whose own success tail raised the Suspend (the loop of PickCherries,
\* the check of CherryPickContinue): it is captured, as every such scope
\* is, and serialized with what its tail has left to do (the cherries not
\* yet tried), waiting at its yield again.  The engine of git-swap never
\* captures a scope whose tail has begun; a tail that a Suspend leaves has
\* not completed, and a scope that an exception other than Suspend leaves is
\* not captured.
C36_OneReleaseCompletes ==
    [][/\ Captured
            => \/ ~TailBegun
               \/ /\ Engine(proc.tool) = "gitq"
                  /\ Top.kind \in {"PickCherries", "CherryPickContinue"}
                  /\ Top.kind = "PickCherries"
                       => /\ Range(Top.cs) \cap Attempted = {}
                          /\ to_json_dict(Top).cs = Top.cs
                  /\ to_json_dict(Top).ph = "body"
       /\ (SuspendRises /\ TailBegun)
            => IF Engine(proc.tool) = "gitq" THEN Captured
               ELSE proc'.susp.ks = proc.susp.ks /\ proc'.stack = Below
       /\ (SuspendRises /\ Top.kind # "Main") => git' = git /\ ghost'.log = ghost.log
       /\ Unwinds => proc'.susp.ks = proc.susp.ks]_vars

\* a Suspend raised in the tail of the PickCherries of git-edit has reached
\* the driver: the scope was captured with the cherries it has not tried
C36_Witness ==
    /\ SuspendRises /\ proc.tool = "git-edit" /\ Top.kind = "Main"
    /\ \E f \in Range(proc.susp.ks) : f.kind = "PickCherries" /\ f.ph = "tail" /\ f.cs # <<>>
\* git-edit has suspended in the tail of PickCherries after a cherry that
\* it picked
C36_WitnessPicked ==
    /\ Exited /\ proc.tool = "git-edit" /\ proc.code = 2 /\ proc.resumed
    /\ \E r \in Range(file.continuations) : r.kind = "PickCherries" /\ r.cs = <<>>
    /\ Count("pick") >= 1
\* the tail of a resumed CherryPickContinue of git-edit has found unmerged
\* files, and the Suspend it raised has captured it
C36_WitnessContinue ==
    /\ SuspendRises /\ proc.tool = "git-edit" /\ proc.resumed
    /\ proc.susp.ks # <<>> /\ proc.susp.ks[1].kind = "CherryPickContinue"
    /\ proc.susp.ks[1].ph = "tail"
\* a Suspend of git-swap is leaving a scope whose tail has begun
C36_WitnessPassed ==
    /\ SuspendRises /\ proc.tool = "git-swap" /\ TailBegun

\* a resumed operation ends in this step with an error: an exception that
\* is neither Suspend nor Abort reaches the driver
ResumeFails == Exits /\ proc.resumed /\ proc'.code = 1
\* nothing stands in the way of a new operation: no file, nothing staged,
\* no cherry-pick under way, and the original branch checked out (or the
\* detached HEAD) at the commit it had before the operation
CanStartAgain(g, f) ==
    /\ ~f.exists
    /\ g.HEAD = ghost.pre.HEAD /\ HeadCommit(g) = PreHead
    /\ is_clean(g) /\ ~cherry_pick_in_progress(g)

\* C37: when a resumed operation ends with a regular error,
\* continuation.json stays absent, the failure tails of the rebuilt scopes
\* have run, and the repository is back on the original branch at its
\* pre-operation commit, so that a new operation can be started.
C37_ErrorRestores ==
    [][ResumeFails => /\ proc.stack = <<Top>>
                      /\ CanStartAgain(git', file')]_vars

\* the same for files whose outermost record is of a registered kind: the
\* EditBranch it names is rebuilt before anything fails, and its failure
\* tail checks the original branch out
ErrorRestoresUnderEditBranch ==
    [][(ResumeFails /\ ghost.file.continuations[1].kind \in ContinuationKinds)
          => /\ proc.stack = <<Top>>
             /\ CanStartAgain(git', file')]_vars

\* a resumed operation has ended with GitFailed and the repository is as
\* before the operation
RestoredAfterError ==
    /\ Exited /\ proc.resumed /\ proc.code = 1 /\ ~Foreign
    /\ CanStartAgain(git, file)
    /\ \E i \in 1..Len(ghost.log) : ghost.log[i].what = "failed"
\* a resume that met an unknown kind inside the rebuilt EditBranch has ended
\* with the repository as before the operation
RestoredAfterUnknown ==
    /\ Exited /\ proc.resumed /\ proc.code = 1 /\ Foreign
    /\ ghost.file.continuations[1].kind \in ContinuationKinds
    /\ CanStartAgain(git, file)

\* the commits of the repository: every branch's, HEAD's and the ones the
\* operation began with
Known(g) == UNION {Ancestors(c) : c \in {HeadCommit(g), PreHead}
                                         \cup {g.branches[b] : b \in DOMAIN g.branches}}
\* the commits strictly above the ancestor commit of hd, oldest first
Above(commit, hd) == [i \in 1..(Len(hd) - Len(commit)) |-> SubSeq(hd, 1, Len(commit) + i)]
\* the walk from hd reaches commit: it is hd or an ancestor of hd, and every
\* commit above it has one parent
Reaches(commit, hd) ==
    /\ commit \in Ancestors(hd)
    /\ \A i \in 1..Len(Above(commit, hd)) : NParents(Above(commit, hd)[i]) = 1
\* what collect_cherries answers for every commit of the repository
CollectsAbove ==
    LET hd == HeadCommit(git)
    IN hd # NoCommit
         => /\ collect_cherries(NoCommit, git) = [ok |-> TRUE, cs |-> <<>>]
            /\ collect_cherries(hd, git) = [ok |-> TRUE, cs |-> <<>>]
            /\ \A commit \in Known(git) :
                 LET w == collect_cherries(commit, git)
                 IN /\ w.ok <=> Reaches(commit, hd)
                    /\ w.ok => w.cs = Above(commit, hd)
                    /\ Len(w.cs) < Len(hd)
\* main (without --up) or git edit calls edit_commit with a commit
CollectsForMain ==
    /\ Running /\ proc.tool = "git-swap" /\ proc.ctl.op = "body" /\ proc.ctl.arg = "main"
    /\ ~proc.args.up /\ proc.args.commit # NoCommit
\* the PickCherries scopes of a stack
PickScopes(st) == SelectSeq(st, LAMBDA f : f.kind = "PickCherries")

\* C38: collect_cherries(commit) returns exactly the commits strictly above
\* commit up to and including HEAD, oldest first, the empty list when
\* commit is HEAD or absent; it ends after fewer steps than HEAD has
\* ancestors, failing (UserError) exactly when the walk from HEAD meets a
\* commit without a unique parent (a merge, or the root when commit is not
\* an ancestor of HEAD) before it reaches commit.  edit_commit sets exactly
\* these commits aside, and main ends with UserError where it fails.
C38_CollectCherries ==
    /\ []CollectsAbove
    /\ [][CollectsForMain
            => IF Reaches(proc.args.commit, HeadCommit(git))
               THEN /\ Len(PickScopes(proc'.stack)) = 1
                    /\ PickScopes(proc'.stack)[1].cs = Above(proc.args.commit, HeadCommit(git))
                    /\ HeadCommit(git') = proc.args.commit
               ELSE proc'.ctl = Exc("UserError") /\ git' = git]_vars

\* edit_commit has set two commits aside, the older first
C38_Witness ==
    /\ Running /\ proc.tool = "git-swap" /\ ~proc.args.up /\ ~proc.resumed
    /\ proc.ctl.op = "body" /\ proc.ctl.arg = "swap_or_squash"
    /\ Len(PickScopes(proc.stack)) = 1 /\ Len(PickScopes(proc.stack)[1].cs) = 2
    /\ PickScopes(proc.stack)[1].cs = <<SubSeq(PreHead, 1, 2), PreHead>>
\* the walk of main has met a merge above the commit it was given
C38_WitnessMerge ==
    /\ Running /\ proc.tool = "git-swap" /\ proc.ctl = Exc("UserError")
    /\ proc.args.commit # NoCommit /\ ~proc.args.up
    /\ \E i \in 1..Len(Above(proc.args.commit, PreHead)) : IsMerge(Above(proc.args.commit, PreHead)[i])
\* a commit of the repository is not an ancestor of HEAD: the walk ends at
\* the root
C38_WitnessRoot ==
    /\ HeadCommit(git) # NoCommit
    /\ \E commit \in Known(git) :
         /\ commit \notin Ancestors(HeadCommit(git))
         /\ \A c \in Ancestors(HeadCommit(git)) : ~IsMerge(c)
         /\ ~collect_cherries(commit, git).ok
\* main was given HEAD itself: nothing is set aside
C38_WitnessHead ==
    /\ Running /\ proc.tool = "git-swap" /\ ~proc.args.up
    /\ proc.args.commit = PreHead
    /\ Len(PickScopes(proc.stack)) = 1 /\ PickScopes(proc.stack)[1].cs = <<>>

====
